---- MODULE Spec2Model ----
(***************************************************************************)
(* A model of opus_sync.py: the resolution cache, the catalog resolver,    *)
(* the genre classifier and the playlist reconciler, as one state machine. *)
(*                                                                         *)
(* Strings are sequences of one-character strings, so that lower(),        *)
(* strip(), split() and the regular expressions are computed, not assumed. *)
(* Time is an integer number of milliseconds of station-local time; time 0 *)
(* is a local midnight.                                                    *)
(***************************************************************************)
EXTENDS Integers, Sequences, FiniteSets, TLC

\* ------------------------------------------------------------------------
\* Program constants
\* ------------------------------------------------------------------------

\* CUTOFF_HOURS = 72
CUTOFF_HOURS == 72
\* DNB_MAX_TRACKS = 100, scaled down so that the bound is reached by small playlists
DNB_MAX_TRACKS == 2
\* BATCH_SIZE = 100, scaled down so that a request list spans several batches
BATCH_SIZE == 2
\* timedelta(hours=1) in milliseconds
MS_PER_HOUR == 3600000
\* one calendar day in milliseconds (datetime.date() of a station-local time)
MS_PER_DAY == 86400000
\* DNB_GENRE_KEYWORDS
DNB_GENRE_KEYWORDS ==
    { <<"d","r","u","m"," ","a","n","d"," ","b","a","s","s">>,
      <<"d","r","u","m"," ","&"," ","b","a","s","s">>,
      <<"d","n","b">>,
      <<"u","k"," ","g","a","r","a","g","e">>,
      <<"j","u","n","g","l","e">> }

\* Python's None
None == "None"

\* ------------------------------------------------------------------------
\* Bounds of the model
\* ------------------------------------------------------------------------

\* clock advances per behaviour
MaxTicks == 1
\* runs started per behaviour
MaxRuns == 2
\* changes of the feed, the catalog or the configuration per behaviour
MaxEnvChanges == 1

\* ------------------------------------------------------------------------
\* Strings
\* ------------------------------------------------------------------------

UpperChars == <<"A","B","C","D","E","F","G","H","I","J","K","L","M",
                "N","O","P","Q","R","S","T","U","V","W","X","Y","Z">>
LowerChars == <<"a","b","c","d","e","f","g","h","i","j","k","l","m",
                "n","o","p","q","r","s","t","u","v","w","x","y","z">>
Digits == {"0","1","2","3","4","5","6","7","8","9"}

\* str.lower() on one character
LowerChar(c) ==
    IF \E i \in 1..26 : UpperChars[i] = c
    THEN LowerChars[CHOOSE i \in 1..26 : UpperChars[i] = c]
    ELSE c

\* str.lower()
Lower(s) == [i \in 1..Len(s) |-> LowerChar(s[i])]

\* \s of the regular expressions and of str.strip()
IsSpace(c) == c \in {" ", "\t", "\n"}

\* \w of the regular expressions
IsWordChar(c) ==
    \/ \E i \in 1..26 : UpperChars[i] = c \/ LowerChars[i] = c
    \/ c \in Digits
    \/ c = "_"

\* s[i:i+len(pat)] == pat, 1-based
StartsAt(s, i, pat) ==
    /\ i >= 1
    /\ i + Len(pat) - 1 <= Len(s)
    /\ SubSeq(s, i, i + Len(pat) - 1) = pat

\* pat in s
Contains(s, pat) == \E i \in 1..Len(s) : StartsAt(s, i, pat)

\* s.find(pat) + 1, 0 when absent
FindFirst(s, pat) ==
    IF Contains(s, pat)
    THEN CHOOSE i \in 1..Len(s) :
            /\ StartsAt(s, i, pat)
            /\ \A j \in 1..(i - 1) : ~StartsAt(s, j, pat)
    ELSE 0

\* s.split(sep)[0]
SplitFirst(s, sep) ==
    IF Contains(s, sep) THEN SubSeq(s, 1, FindFirst(s, sep) - 1) ELSE s

RECURSIVE LStrip(_)
LStrip(s) == IF s # <<>> /\ IsSpace(Head(s)) THEN LStrip(Tail(s)) ELSE s

RECURSIVE RStrip(_)
RStrip(s) ==
    IF s # <<>> /\ IsSpace(s[Len(s)]) THEN RStrip(SubSeq(s, 1, Len(s) - 1)) ELSE s

\* str.strip()
Strip(s) == RStrip(LStrip(s))

\* str.replace(pat, rep), pat non-empty
RECURSIVE Replace(_, _, _)
Replace(s, pat, rep) ==
    IF s = <<>> THEN <<>>
    ELSE IF StartsAt(s, 1, pat)
         THEN rep \o Replace(SubSeq(s, Len(pat) + 1, Len(s)), pat, rep)
         ELSE <<Head(s)>> \o Replace(Tail(s), pat, rep)

\* "".join of a sequence of strings written with a separator
SEP == <<" ", "-", " ">>

\* ------------------------------------------------------------------------
\* Tables of the SQLite store: functions whose domain is the primary key
\* ------------------------------------------------------------------------

EmptyTable == <<>>

\* INSERT OR REPLACE INTO t VALUES (k, v)
Put(t, k, v) == [x \in (DOMAIN t) \cup {k} |-> IF x = k THEN v ELSE t[x]]

\* DELETE FROM t WHERE key = k
Del(t, k) == [x \in (DOMAIN t) \ {k} |-> t[x]]

\* datetime.now(tz=VILNIUS_TZ).date().isoformat(): the calendar day of a time
DateOf(t) == t \div MS_PER_DAY

\* ------------------------------------------------------------------------
\* Resolution cache (tables tracks and not_found)
\* ------------------------------------------------------------------------

\* Python truthiness of a uri: None and "" are falsy
Truthy(u) == u # None /\ u # ""

\* cached_lookup(conn, key)
cached_lookup(tracks_t, key) ==
    IF key \in DOMAIN tracks_t THEN tracks_t[key] ELSE None

\* a recency test that ignores the date of the entry
is_recently_not_found_any_day(nf_t, key, t) == key \in DOMAIN nf_t

\* is_recently_not_found(conn, key) at clock t
is_recently_not_found(nf_t, key, t) ==
    /\ key \in DOMAIN nf_t
    /\ nf_t[key] = DateOf(t)

\* a negative entry stamped with the day before
cache_not_found_stale(nf_t, key, t) == Put(nf_t, key, DateOf(t) - 1)

\* cache_not_found(conn, key) at clock t: the new not_found table
cache_not_found(nf_t, key, t) == Put(nf_t, key, DateOf(t))

\* a store that leaves the negative entry in place
cache_store_keeps_negative(tracks_t, nf_t, key, uri) ==
    [tracks |-> Put(tracks_t, key, uri), not_found |-> nf_t]

\* a store that does not replace the row a key already has
cache_store_insert_or_ignore(tracks_t, nf_t, key, uri) ==
    [tracks |-> IF key \in DOMAIN tracks_t THEN tracks_t ELSE Put(tracks_t, key, uri),
     not_found |-> Del(nf_t, key)]

\* cache_store(conn, key, uri): the new tracks and not_found tables
cache_store(tracks_t, nf_t, key, uri) ==
    [tracks |-> Put(tracks_t, key, uri), not_found |-> Del(nf_t, key)]

\* ------------------------------------------------------------------------
\* Catalog resolver
\* ------------------------------------------------------------------------

\* f"{artist.lower()} - {title.lower()}"
DedupKey(artist, title) == Lower(artist) \o SEP \o Lower(title)

\* AND_RE.sub("", a) from position i on: \band\b, case-insensitive
RECURSIVE AndSub(_, _)
AndSub(a, i) ==
    IF i > Len(a) THEN <<>>
    ELSE IF /\ StartsAt(Lower(a), i, <<"a","n","d">>)
            /\ (i = 1 \/ ~IsWordChar(a[i - 1]))
            /\ (i + 3 > Len(a) \/ ~IsWordChar(a[i + 3]))
         THEN AndSub(a, i + 3)
         ELSE <<a[i]>> \o AndSub(a, i + 1)

\* clean_artist(a)
clean_artist(a) ==
    LET b == IF Contains(a, <<"G","a","n","d","G">>)
             THEN Replace(a, <<"G","a","n","d","G">>, <<"G","&","G">>)
             ELSE a
    IN  Strip(AndSub(b, 1))

\* the multi-artist test of search_track
IsMultiArtist(artist) ==
    \/ Contains(artist, <<",">>)
    \/ Contains(Lower(artist), <<" ","a","n","d"," ">>)
    \/ Contains(artist, <<" ","&"," ">>)
    \/ Contains(artist, <<" ","V","s"," ">>)
    \/ Contains(artist, <<"/">>)

\* artist.split(',')[0].split(' and ')[0].split(' & ')[0].split(' Vs ')[0].split('/')[0].strip()
FirstArtist(artist) ==
    Strip(SplitFirst(SplitFirst(SplitFirst(SplitFirst(SplitFirst(artist,
        <<",">>), <<" ","a","n","d"," ">>), <<" ","&"," ">>),
        <<" ","V","s"," ">>), <<"/">>))

\* first_artist_q: the artist argument of the second search
first_artist_q(artist) == clean_artist(FirstArtist(artist))

\* sp.search(q=f'track:"{title}" artist:"{artist_q}"', type="track", limit=1):
\* the uri of the first item, None when items is empty
SearchRemote(cat, title, artist_q) ==
    IF <<title, artist_q>> \in DOMAIN cat THEN cat[<<title, artist_q>>] ELSE None

\* the fallback search of search_track is issued
NeedsFallback(cat, artist, title) ==
    /\ SearchRemote(cat, title, clean_artist(artist)) = None
    /\ IsMultiArtist(artist)

\* a resolve whose negative store wipes the positive entries
search_track_miss_clears_tracks(tracks_t, nf_t, cat, t, artist, title) ==
    LET key == DedupKey(artist, title)
        uri == cached_lookup(tracks_t, key)
        fallback == NeedsFallback(cat, artist, title)
        found == IF fallback
                 THEN SearchRemote(cat, title, clean_artist(FirstArtist(artist)))
                 ELSE SearchRemote(cat, title, clean_artist(artist))
        stored == cache_store(tracks_t, nf_t, key, found)
        n == IF fallback THEN 2 ELSE 1
    IN  IF Truthy(uri)
        THEN [uri |-> uri, from_cache |-> TRUE, tracks |-> tracks_t,
              not_found |-> nf_t, searches |-> 0]
        ELSE IF is_recently_not_found(nf_t, key, t)
        THEN [uri |-> None, from_cache |-> TRUE, tracks |-> tracks_t,
              not_found |-> nf_t, searches |-> 0]
        ELSE IF found # None
        THEN [uri |-> found, from_cache |-> FALSE, tracks |-> stored.tracks,
              not_found |-> stored.not_found, searches |-> n]
        ELSE [uri |-> None, from_cache |-> FALSE, tracks |-> EmptyTable,
              not_found |-> cache_not_found(nf_t, key, t), searches |-> n]

\* a resolve that does not consult the negative cache
search_track_skips_negative(tracks_t, nf_t, cat, t, artist, title) ==
    LET key == DedupKey(artist, title)
        uri == cached_lookup(tracks_t, key)
        fallback == NeedsFallback(cat, artist, title)
        found == IF fallback
                 THEN SearchRemote(cat, title, clean_artist(FirstArtist(artist)))
                 ELSE SearchRemote(cat, title, clean_artist(artist))
        stored == cache_store(tracks_t, nf_t, key, found)
        n == IF fallback THEN 2 ELSE 1
    IN  IF Truthy(uri)
        THEN [uri |-> uri, from_cache |-> TRUE, tracks |-> tracks_t,
              not_found |-> nf_t, searches |-> 0]
        ELSE IF found # None
        THEN [uri |-> found, from_cache |-> FALSE, tracks |-> stored.tracks,
              not_found |-> stored.not_found, searches |-> n]
        ELSE [uri |-> None, from_cache |-> FALSE, tracks |-> tracks_t,
              not_found |-> cache_not_found(nf_t, key, t), searches |-> n]

\* a resolve that caches a fallback result under the first artist's key
search_track_first_artist_key(tracks_t, nf_t, cat, t, artist, title) ==
    LET key == DedupKey(artist, title)
        uri == cached_lookup(tracks_t, key)
        fallback == NeedsFallback(cat, artist, title)
        found == IF fallback
                 THEN SearchRemote(cat, title, clean_artist(FirstArtist(artist)))
                 ELSE SearchRemote(cat, title, clean_artist(artist))
        stored == cache_store(tracks_t, nf_t,
                              IF fallback THEN DedupKey(FirstArtist(artist), title)
                              ELSE key, found)
        n == IF fallback THEN 2 ELSE 1
    IN  IF Truthy(uri)
        THEN [uri |-> uri, from_cache |-> TRUE, tracks |-> tracks_t,
              not_found |-> nf_t, searches |-> 0]
        ELSE IF is_recently_not_found(nf_t, key, t)
        THEN [uri |-> None, from_cache |-> TRUE, tracks |-> tracks_t,
              not_found |-> nf_t, searches |-> 0]
        ELSE IF found # None
        THEN [uri |-> found, from_cache |-> FALSE, tracks |-> stored.tracks,
              not_found |-> stored.not_found, searches |-> n]
        ELSE [uri |-> None, from_cache |-> FALSE, tracks |-> tracks_t,
              not_found |-> cache_not_found(nf_t, key, t), searches |-> n]

\* a resolve that asks the first query once more when nothing was found
search_track_retries(tracks_t, nf_t, cat, t, artist, title) ==
    LET key == DedupKey(artist, title)
        uri == cached_lookup(tracks_t, key)
        first == SearchRemote(cat, title, clean_artist(artist))
        fallback == NeedsFallback(cat, artist, title)
        found == IF fallback
                 THEN SearchRemote(cat, title, first_artist_q(artist))
                 ELSE first
        stored == cache_store(tracks_t, nf_t, key, found)
    IN  IF Truthy(uri)
        THEN [uri |-> uri, from_cache |-> TRUE, tracks |-> tracks_t,
              not_found |-> nf_t, searches |-> 0]
        ELSE IF is_recently_not_found(nf_t, key, t)
        THEN [uri |-> None, from_cache |-> TRUE, tracks |-> tracks_t,
              not_found |-> nf_t, searches |-> 0]
        ELSE IF found # None
        THEN [uri |-> found, from_cache |-> FALSE, tracks |-> stored.tracks,
              not_found |-> stored.not_found,
              searches |-> IF fallback THEN 2 ELSE 1]
        ELSE [uri |-> None, from_cache |-> FALSE, tracks |-> tracks_t,
              not_found |-> cache_not_found(nf_t, key, t),
              searches |-> IF fallback THEN 3 ELSE 2]

\* search_track(sp, conn, artist, title, return_cache_flag=True) when no remote
\* call raises: the result, the tables it leaves and the remote searches issued
search_track(tracks_t, nf_t, cat, t, artist, title) ==
    LET key == DedupKey(artist, title)
        uri == cached_lookup(tracks_t, key)
        first == SearchRemote(cat, title, clean_artist(artist))
        fallback == NeedsFallback(cat, artist, title)
        found == IF fallback
                 THEN SearchRemote(cat, title, first_artist_q(artist))
                 ELSE first
        stored == cache_store(tracks_t, nf_t, key, found)
    IN  IF Truthy(uri)
        THEN [uri |-> uri, from_cache |-> TRUE, tracks |-> tracks_t,
              not_found |-> nf_t, searches |-> 0]
        ELSE IF is_recently_not_found(nf_t, key, t)
        THEN [uri |-> None, from_cache |-> TRUE, tracks |-> tracks_t,
              not_found |-> nf_t, searches |-> 0]
        ELSE IF found # None
        THEN [uri |-> found, from_cache |-> FALSE, tracks |-> stored.tracks,
              not_found |-> stored.not_found,
              searches |-> IF fallback THEN 2 ELSE 1]
        ELSE [uri |-> None, from_cache |-> FALSE, tracks |-> tracks_t,
              not_found |-> cache_not_found(nf_t, key, t),
              searches |-> IF fallback THEN 2 ELSE 1]

\* ------------------------------------------------------------------------
\* Genre classifier (tables artist_genres and track_dnb_status)
\* ------------------------------------------------------------------------

\* get_cached_artist_genres(conn, artist_id): <<genres>>, or <<>> for None
get_cached_artist_genres(ag_t, aid) ==
    IF aid \in DOMAIN ag_t THEN <<ag_t[aid]>> ELSE <<>>

\* a cache write that skips an empty genre list
cache_artist_genres_nonempty(ag_t, aid, genres) ==
    IF genres = <<>> THEN ag_t ELSE Put(ag_t, aid, genres)

\* cache_artist_genres(conn, artist_id, genres)
cache_artist_genres(ag_t, aid, genres) == Put(ag_t, aid, genres)

\* a match that compares the genres as they are spelled
GenresMatch_case_sensitive(genres) ==
    { genres[i] : i \in 1..Len(genres) } \cap DNB_GENRE_KEYWORDS # {}

\* bool(set(g.lower() for g in genres) & DNB_GENRE_KEYWORDS)
GenresMatch(genres) ==
    { Lower(genres[i]) : i \in 1..Len(genres) } \cap DNB_GENRE_KEYWORDS # {}

\* int(is_dnb) as stored, bool(row[0]) as read
IntOfBool(b) == IF b THEN 1 ELSE 0
BoolOfInt(n) == n # 0

\* a lookup that treats a row with is_dnb = 0 as no row
get_cached_track_dnb_status_only_true(st_t, uri) ==
    IF uri \in DOMAIN st_t /\ st_t[uri].is_dnb # 0
    THEN <<BoolOfInt(st_t[uri].is_dnb), st_t[uri].track_data>>
    ELSE <<>>

\* get_cached_track_dnb_status(conn, uri): <<is_dnb, track_data>>, or <<>> for None
get_cached_track_dnb_status(st_t, uri) ==
    IF uri \in DOMAIN st_t
    THEN <<BoolOfInt(st_t[uri].is_dnb), st_t[uri].track_data>>
    ELSE <<>>

\* cache_track_dnb_status(conn, uri, is_dnb, track_data)
cache_track_dnb_status(st_t, uri, is_dnb, track_data) ==
    Put(st_t, uri, [is_dnb |-> IntOfBool(is_dnb), track_data |-> track_data])

\* a clear that deletes only the rows classified false
clear_track_dnb_status_cache_keeps_true(st_t) ==
    [table |-> [u \in {v \in DOMAIN st_t : st_t[v].is_dnb # 0} |-> st_t[u]],
     rowcount |-> Cardinality({v \in DOMAIN st_t : st_t[v].is_dnb = 0})]

\* clear_track_dnb_status_cache(conn): the table left and the rowcount returned
clear_track_dnb_status_cache(st_t) ==
    [table |-> EmptyTable, rowcount |-> Cardinality(DOMAIN st_t)]

\* one iteration of the loop of is_dnb_track on artist aid, genres being what
\* sp.artist(aid)["genres"] returns: the table left, the verdict of this
\* artist and whether the remote call was made
ArtistStep(ag_t, aid, genres) ==
    LET cached == get_cached_artist_genres(ag_t, aid)
    IN  IF cached # <<>>
        THEN [artist_genres |-> ag_t, is_dnb |-> GenresMatch(cached[1]), remote |-> FALSE]
        ELSE [artist_genres |-> cache_artist_genres(ag_t, aid, genres),
              is_dnb |-> GenresMatch(genres), remote |-> TRUE]

\* ------------------------------------------------------------------------
\* Record normalizer
\* ------------------------------------------------------------------------

\* A raw feed item is a dict: a function from some of the keys "dt", "time",
\* "timestamp", "song", "name" to values.  A timestamp value is
\* [t |-> "num", v |-> epoch milliseconds], [t |-> "str", ok |-> whether the
\* text has the shape %Y.%m.%d %H:%M, minutes |-> the minute it names] or
\* [t |-> "other"]; a song value is a string.

\* item.get(k) of a timestamp key; [t |-> "none"] is Python's None
GetDt(item, k) == IF k \in DOMAIN item THEN item[k] ELSE [t |-> "none"]

\* item.get(k) of a song key; the empty string stands for None too (both falsy)
GetStr(item, k) == IF k \in DOMAIN item THEN item[k] ELSE <<>>

\* Python falsiness of a timestamp value
FalsyDt(v) == v.t = "none" \/ (v.t = "num" /\ v.v = 0)

\* item.get("dt") or item.get("time") or item.get("timestamp")
RawDt(item) ==
    IF ~FalsyDt(GetDt(item, "dt")) THEN GetDt(item, "dt")
    ELSE IF ~FalsyDt(GetDt(item, "time")) THEN GetDt(item, "time")
    ELSE GetDt(item, "timestamp")

\* (item.get("song") or item.get("name") or "").strip()
RawSong(item) ==
    IF GetStr(item, "song") # <<>> THEN Strip(GetStr(item, "song"))
    ELSE Strip(GetStr(item, "name"))

\* _parse_dt(dt_raw) raises: datetime.fromtimestamp rejects a number beyond the
\* years it can hold (tag "huge"), and nothing catches its ValueError
parse_dt_raises(dt_raw) == dt_raw.t = "huge"

\* _parse_dt(dt_raw) when it does not raise: <<time in milliseconds>>, or <<>>
\* for None
parse_dt(dt_raw) ==
    IF dt_raw.t = "num" THEN <<dt_raw.v>>
    ELSE IF dt_raw.t = "str" /\ dt_raw.ok THEN <<dt_raw.minutes * 60000>>
    ELSE <<>>

\* a match that needs a space on each side of the hyphen
ArtTitle_spaced(raw_song) ==
    IF ~Contains(raw_song, SEP) THEN <<>>
    ELSE LET h == FindFirst(raw_song, SEP)
         IN  << Strip(SubSeq(raw_song, 1, h - 1)),
                Strip(SubSeq(raw_song, h + 3, Len(raw_song))) >>

\* ART_TITLE_RE.match(raw_song).groups(), <<>> when there is no match:
\* ^\s*(.*?)\s*-\s*(.*?)\s*$ splits at the first hyphen
ArtTitle(raw_song) ==
    IF ~Contains(raw_song, <<"-">>) THEN <<>>
    ELSE LET h == FindFirst(raw_song, <<"-">>)
         IN  << Strip(SubSeq(raw_song, 1, h - 1)),
                Strip(SubSeq(raw_song, h + 1, Len(raw_song))) >>

\* YEAR_RE.sub("", title): \(\d{4}\)\s*$
RECURSIVE YearSub(_, _)
YearSub(title, i) ==
    IF i > Len(title) THEN title
    ELSE IF /\ i + 5 <= Len(title)
            /\ title[i] = "("
            /\ \A j \in (i + 1)..(i + 4) : title[j] \in Digits
            /\ title[i + 5] = ")"
            /\ \A j \in (i + 6)..Len(title) : IsSpace(title[j])
         THEN SubSeq(title, 1, i - 1)
         ELSE YearSub(title, i + 1)

\* the end (exclusive) of a match of FEAT_RE starting at i, 0 when none:
\* \((?:feat|ft)\.?\s+.*?\)\s*, case-insensitive
FeatMatchEnd(s, i) ==
    LET low == Lower(s)
        w == IF StartsAt(low, i, <<"(","f","e","a","t">>) THEN i + 5
             ELSE IF StartsAt(low, i, <<"(","f","t">>) THEN i + 3
             ELSE 0
        d == IF w # 0 /\ w <= Len(s) /\ s[w] = "." THEN w + 1 ELSE w
        closes == { j \in (d + 1)..Len(s) : s[j] = ")" }
        close == CHOOSE j \in closes : \A k \in closes : j <= k
        after == { j \in (close + 1)..(Len(s) + 1) :
                     \A k \in (close + 1)..(j - 1) : IsSpace(s[k]) }
    IN  IF w = 0 \/ d > Len(s) \/ ~IsSpace(s[d]) \/ closes = {} THEN 0
        ELSE CHOOSE j \in after : \A k \in after : k <= j

\* FEAT_RE.sub("", title) from position i on
RECURSIVE FeatSub(_, _)
FeatSub(s, i) ==
    IF i > Len(s) THEN <<>>
    ELSE IF FeatMatchEnd(s, i) # 0 THEN FeatSub(s, FeatMatchEnd(s, i))
    ELSE <<s[i]>> \o FeatSub(s, i + 1)

\* the title as parse_records cleans it
CleanTitle(title) == Strip(FeatSub(Strip(YearSub(title, 1)), 1))

\* a loop body that also drops the item dated exactly at the cutoff
ParseItem_drops_at_cutoff(item, t) ==
    LET ts == parse_dt(RawDt(item))
        raw_song == RawSong(item)
        m == ArtTitle(raw_song)
    IN  IF ts = <<>> THEN <<>>
        ELSE IF ts[1] <= t - CUTOFF_HOURS * MS_PER_HOUR THEN <<>>
        ELSE IF raw_song = <<>> THEN <<>>
        ELSE IF m = <<>> THEN <<>>
        ELSE << <<ts[1], m[1], CleanTitle(m[2])>> >>

\* the loop body of parse_records on one item: <<(ts, artist, title)>>, or <<>>
\* when the item is dropped
ParseItem(item, t) ==
    LET ts == parse_dt(RawDt(item))
        raw_song == RawSong(item)
        m == ArtTitle(raw_song)
    IN  IF ts = <<>> THEN <<>>
        ELSE IF ts[1] < t - CUTOFF_HOURS * MS_PER_HOUR THEN <<>>
        ELSE IF raw_song = <<>> THEN <<>>
        ELSE IF m = <<>> THEN <<>>
        ELSE << <<ts[1], m[1], CleanTitle(m[2])>> >>

\* the list latest of parse_records
RECURSIVE Latest(_, _)
Latest(items, t) ==
    IF items = <<>> THEN <<>>
    ELSE ParseItem(Head(items), t) \o Latest(Tail(items), t)

\* insert x into the sorted list l after every element whose k-th field is <=
RECURSIVE InsertBy(_, _, _)
InsertBy(l, x, k) ==
    IF l = <<>> THEN <<x>>
    ELSE IF x[k] < Head(l)[k] THEN <<x>> \o l
    ELSE <<Head(l)>> \o InsertBy(Tail(l), x, k)

\* sorted(l, key=lambda x: x[k-1]): ascending and stable
RECURSIVE SortBy(_, _)
SortBy(l, k) ==
    IF l = <<>> THEN <<>>
    ELSE InsertBy(SortBy(SubSeq(l, 1, Len(l) - 1), k), l[Len(l)], k)

\* a de-duplication that keeps every record
Unique_keeps_all(l, seen) == l

\* the de-duplication loop of parse_records
RECURSIVE Unique(_, _)
Unique(l, seen) ==
    IF l = <<>> THEN <<>>
    ELSE LET key == DedupKey(Head(l)[2], Head(l)[3])
         IN  IF key \in seen THEN Unique(Tail(l), seen)
             ELSE <<Head(l)>> \o Unique(Tail(l), seen \cup {key})

\* parse_records(records) raises: _parse_dt is called on every item of the list
ParseRaises(items) == \E i \in 1..Len(items) : parse_dt_raises(RawDt(items[i]))

\* parse_records(records) at clock t, when it does not raise
parse_records(items, t) == Unique(SortBy(Latest(items, t), 1), {})

\* ------------------------------------------------------------------------
\* Playlist reconciler
\* ------------------------------------------------------------------------

\* A remote playlist is a sequence of [added_at, uri].  The catalog returns it
\* in pages of PAGE_LIMIT items.

\* items per page of sp.playlist_items / sp.next
PAGE_LIMIT == 2

\* a snapshot that returns after the page starting at offset, without asking
\* for the next one
SnapshotFrom_first_page(pl, offset) ==
    IF offset >= Len(pl) THEN <<>>
    ELSE LET last == IF offset + PAGE_LIMIT < Len(pl) THEN offset + PAGE_LIMIT ELSE Len(pl)
         IN  [i \in 1..(last - offset) |->
                 <<offset + i - 1, pl[offset + i].added_at, pl[offset + i].uri>>]

\* the loop of playlist_snapshot from the page starting at offset, pos items
\* having been read: added_at is converted between zones, the instant is kept
RECURSIVE SnapshotFrom(_, _)
SnapshotFrom(pl, offset) ==
    IF offset >= Len(pl) THEN <<>>
    ELSE LET last == IF offset + PAGE_LIMIT < Len(pl) THEN offset + PAGE_LIMIT ELSE Len(pl)
         IN  [i \in 1..(last - offset) |->
                 <<offset + i - 1, pl[offset + i].added_at, pl[offset + i].uri>>]
             \o SnapshotFrom(pl, last)

\* playlist_snapshot(sp, playlist_id): the list of (pos, added_at, uri)
playlist_snapshot(pl) == SnapshotFrom(pl, 0)

\* l[:-n] of Python for n >= 0
SliceDropLast(l, n) ==
    IF n = 0 THEN <<>>
    ELSE IF n >= Len(l) THEN <<>>
    ELSE SubSeq(l, 1, Len(l) - n)

\* the slots remove_old selects, in the order it visits them; max_tracks is
\* <<>> for None and <<n>> for n
TracksToRemove(snapshot, t, cutoff_hours, max_tracks) ==
    IF max_tracks # <<>> /\ Len(snapshot) > max_tracks[1]
    THEN SliceDropLast(SortBy(snapshot, 2), max_tracks[1])
    ELSE SelectSeq(snapshot, LAMBDA x : x[2] < t - cutoff_hours * MS_PER_HOUR)

\* removals.setdefault(uri, []).append(idx) over the selected slots: the dict
\* as the list of its items in insertion order
RECURSIVE Removals(_, _)
Removals(sel, acc) ==
    IF sel = <<>> THEN acc
    ELSE LET idx == Head(sel)[1]
             uri == Head(sel)[3]
         IN  IF \E i \in 1..Len(acc) : acc[i].uri = uri
             THEN Removals(Tail(sel),
                    [i \in 1..Len(acc) |->
                        IF acc[i].uri = uri
                        THEN [uri |-> uri, positions |-> Append(acc[i].positions, idx)]
                        ELSE acc[i]])
             ELSE Removals(Tail(sel), Append(acc, [uri |-> uri, positions |-> <<idx>>]))

\* the whole list in one request, whatever its length
Chunks_one_request(l) == IF l = <<>> THEN <<>> ELSE <<l>>

\* [l[i : i + BATCH_SIZE] for i in range(0, len(l), BATCH_SIZE)]
RECURSIVE Chunks(_)
Chunks(l) ==
    IF l = <<>> THEN <<>>
    ELSE IF Len(l) <= BATCH_SIZE THEN <<l>>
    ELSE <<SubSeq(l, 1, BATCH_SIZE)>> \o Chunks(SubSeq(l, BATCH_SIZE + 1, Len(l)))

\* the payload of remove_old
RemovePayload(snapshot, t, cutoff_hours, max_tracks) ==
    Removals(TracksToRemove(snapshot, t, cutoff_hours, max_tracks), <<>>)

\* a count of the track ids of the payload instead of their positions
RemovedCount_by_uri(payload) == Len(payload)

\* sum(len(p) for p in removals.values())
RECURSIVE RemovedCount(_)
RemovedCount(payload) ==
    IF payload = <<>> THEN 0
    ELSE Len(Head(payload).positions) + RemovedCount(Tail(payload))

\* sp.playlist_remove_specific_occurrences_of_items(playlist_id, chunk) as the
\* catalog applies it: of the playlist as it stands, the occurrence at each
\* named position goes when it holds the named uri
RemoteRemove(pl, chunk) ==
    LET hit(p) == \E c \in 1..Len(chunk) :
                     /\ chunk[c].uri = pl[p].uri
                     /\ \E q \in 1..Len(chunk[c].positions) :
                            chunk[c].positions[q] = p - 1
        F[p \in 0..Len(pl)] ==
            IF p = 0 THEN <<>>
            ELSE IF hit(p) THEN F[p - 1] ELSE Append(F[p - 1], pl[p])
    IN  F[Len(pl)]

\* sp.playlist_add_items(playlist_id, chunk) at clock t: appended at the end
RemoteAdd(pl, chunk, t) ==
    pl \o [i \in 1..Len(chunk) |-> [added_at |-> t, uri |-> chunk[i]]]

\* current_uris = {uri for _, _, uri in snapshot}
SnapshotUris(snapshot) == { snapshot[i][3] : i \in 1..Len(snapshot) }

\* an addition list that is not filtered by the snapshot
ToAddUnfiltered(uris, snapshot) == uris

\* to_add = [u for u in new_uris if u not in current_uris]
ToAdd(uris, snapshot) == SelectSeq(uris, LAMBDA u : u \notin SnapshotUris(snapshot))

\* ------------------------------------------------------------------------
\* The environment: clock, feed endpoint, catalog
\* ------------------------------------------------------------------------

\* the clock when a behaviour starts: day 4, 10:00 station time
T0 == 381600000

\* what one clock advance adds: an hour, or a day
TickSteps == { MS_PER_HOUR, MS_PER_DAY }

\* raw song strings of the feed
SongAx == <<"A"," ","-"," ","x">>
SongABy == <<"A",","," ","B"," ","-"," ","y">>
SongaX == <<"a"," ","-"," ","X"," ","(","2","0","2","4",")">>
SongBad == <<"A","x">>
SongTight == <<"C","-","z">>
SongJZ == <<"J","-","Z"," ","-"," ","x">>

\* feed items
Item(ms, song) == [dt |-> [t |-> "num", v |-> ms], song |-> song]

\* a feed item whose timestamp is a number of another unit, far beyond the
\* year 9999 when read as milliseconds
HugeItem(song) == [dt |-> [t |-> "huge"], song |-> song]

\* a feed item whose timestamp is a string of another format
BadDateItem(song) == [dt |-> [t |-> "str", ok |-> FALSE, minutes |-> 0], song |-> song]

\* JSON bodies the feed endpoint may return: [shape, items]; shape is the
\* top-level key holding the list, "list" for a bare list, "dict" for a dict
\* without a known key, "nonjson" for a body that is not JSON, "null" for the
\* JSON value null
FeedChoices ==
    { [shape |-> "rdsList",
       items |-> << Item(T0 - MS_PER_HOUR, SongAx),
                    Item(T0 - 2 * MS_PER_HOUR, SongABy) >>],
      [shape |-> "list",
       items |-> << Item(T0 - MS_PER_HOUR, SongABy),
                    Item(T0 - 2 * MS_PER_HOUR, SongaX),
                    Item(T0 - 80 * MS_PER_HOUR, SongAx),
                    Item(T0, SongBad) >>],
      [shape |-> "items",
       items |-> << Item(T0 - MS_PER_HOUR, SongAx), HugeItem(SongABy) >>],
      [shape |-> "dict", items |-> <<>>],
      [shape |-> "nonjson", items |-> <<>>],
      [shape |-> "null", items |-> <<>>] }

\* fetch_opus() raises on the body: resp.json() is neither a dict nor a list,
\* and `key in data` is a TypeError
BodyRaises(body) == body.shape = "null"

\* fetch_opus() when the request succeeds and the body does not raise: the raw
\* list of items
fetch_opus(body) ==
    IF body.shape \in {"rdsList", "rds", "data", "items", "list"}
    THEN body.items
    ELSE <<>>

\* track ids of the catalog
Uris == {"u1", "u2", "u3"}

\* search queries (title, artist) the feed gives rise to
QueryAx == << <<"x">>, <<"A">> >>
QueryaX == << <<"X">>, <<"a">> >>
QueryABy == << <<"y">>, <<"A",","," ","B">> >>
QueryAy == << <<"y">>, <<"A">> >>

\* catalogs: what sp.search answers, as a table from query to first item
CatalogChoices ==
    { EmptyTable,
      (QueryAx :> "u1") @@ (QueryAy :> "u2") @@ (QueryaX :> "u1"),
      (QueryAx :> "u1") @@ (QueryABy :> "u1") @@ (QueryaX :> "u3"),
      (QueryAx :> "u2") }

\* sp.track(uri): the track object, of which the artists matter
CatalogTrack(u) ==
    [uri |-> u,
     artists |-> CASE u = "u1" -> <<"ar1", "ar3">>
                   [] u = "u2" -> <<"ar2", "ar1">>
                   [] OTHER -> <<"ar3">>]

\* sp.artist(aid)["genres"]
CatalogGenres(aid) ==
    CASE aid = "ar1" -> << <<"D","n","B">>, <<"r","o","c","k">> >>
      [] aid = "ar2" -> <<>>
      [] OTHER -> << <<"r","o","c","k">> >>

\* playlists at the start: [main, dnb]
Slot(ms, u) == [added_at |-> ms, uri |-> u]
PlaylistChoices ==
    { [main |-> <<>>, dnb |-> <<>>],
      [main |-> << Slot(T0 - 80 * MS_PER_HOUR, "u3"), Slot(T0 - MS_PER_HOUR, "u1") >>,
       dnb |-> << Slot(T0 - 80 * MS_PER_HOUR, "u2"), Slot(T0 - 50 * MS_PER_HOUR, "u3") >>],
      [main |-> << Slot(T0 - 90 * MS_PER_HOUR, "u1"), Slot(T0 - 80 * MS_PER_HOUR, "u2"),
                   Slot(T0 - 75 * MS_PER_HOUR, "u3"), Slot(T0 - MS_PER_HOUR, "u3") >>,
       dnb |-> << Slot(T0 - 3 * MS_PER_HOUR, "u3"), Slot(T0 - 2 * MS_PER_HOUR, "u1"),
                  Slot(T0 - 80 * MS_PER_HOUR, "u2") >>] }

\* ------------------------------------------------------------------------
\* A whole run of main() without failure, as a function of what it starts from
\* ------------------------------------------------------------------------

\* is_dnb_track(sp, track, conn) on the artists left: the artist_genres table
\* it leaves and its result
RECURSIVE is_dnb_track(_, _)
is_dnb_track(ag_t, artists) ==
    IF artists = <<>> THEN [artist_genres |-> ag_t, is_dnb |-> FALSE]
    ELSE LET r == ArtistStep(ag_t, Head(artists), CatalogGenres(Head(artists)))
         IN  IF r.is_dnb THEN [artist_genres |-> r.artist_genres, is_dnb |-> TRUE]
             ELSE is_dnb_track(r.artist_genres, Tail(artists))

\* the body of the loop of main() on one record; st holds the four tables and
\* the lists new_uris, new_dnb_uris, misses
ResolveOne(st, rec, cat, t) ==
    LET r == search_track(st.tracks, st.not_found, cat, t, rec[2], rec[3])
        cached == get_cached_track_dnb_status(st.track_dnb_status, r.uri)
        walk == is_dnb_track(st.artist_genres, CatalogTrack(r.uri).artists)
        dnb == IF cached # <<>> THEN cached[1] ELSE walk.is_dnb
    IN  IF ~Truthy(r.uri)
        THEN [st EXCEPT !.tracks = r.tracks, !.not_found = r.not_found,
                        !.misses = Append(@, <<rec[2], rec[3]>>)]
        ELSE [tracks |-> r.tracks,
              not_found |-> r.not_found,
              artist_genres |-> IF cached # <<>> THEN st.artist_genres
                                ELSE walk.artist_genres,
              track_dnb_status |->
                  IF cached # <<>> THEN st.track_dnb_status
                  ELSE cache_track_dnb_status(st.track_dnb_status, r.uri,
                                              walk.is_dnb, CatalogTrack(r.uri)),
              new_uris |-> Append(st.new_uris, r.uri),
              new_dnb_uris |-> IF dnb THEN Append(st.new_dnb_uris, r.uri)
                               ELSE st.new_dnb_uris,
              misses |-> st.misses]

\* the loop of main() over the records
RECURSIVE ResolveAll(_, _, _, _)
ResolveAll(st, recs, cat, t) ==
    IF recs = <<>> THEN st
    ELSE ResolveAll(ResolveOne(st, Head(recs), cat, t), Tail(recs), cat, t)

\* the requests of remove_old, one after the other
RECURSIVE RemoveAll(_, _)
RemoveAll(pl, chunks) ==
    IF chunks = <<>> THEN pl
    ELSE RemoveAll(RemoteRemove(pl, Head(chunks)), Tail(chunks))

\* the requests of add_new, one after the other
RECURSIVE AddAll(_, _, _)
AddAll(pl, chunks, t) ==
    IF chunks = <<>> THEN pl
    ELSE AddAll(RemoteAdd(pl, Head(chunks), t), Tail(chunks), t)

\* snapshot, remove_old, snapshot again when needed, add_new on one playlist
Reconcile(pl, uris, t, cutoff_hours, max_tracks) ==
    LET before == playlist_snapshot(pl)
        payload == RemovePayload(before, t, cutoff_hours, max_tracks)
        removed == RemovedCount(payload)
        pl1 == RemoveAll(pl, Chunks(payload))
        snap == IF removed = 0 THEN before ELSE playlist_snapshot(pl1)
        to_add == ToAdd(uris, snap)
    IN  [playlist |-> AddAll(pl1, Chunks(to_add), t),
         removed |-> removed, added |-> Len(to_add)]

\* the uris of a playlist in order
UrisOf(pl) == [i \in 1..Len(pl) |-> pl[i].uri]

\* main() from tables db and playlists pls: the tables and the playlists
\* (track ids in order) it ends with, and the counts it reports
FullRun(db, pls, body, cat, t, clear, dnb_id) ==
    LET st0 == [tracks |-> db.tracks, not_found |-> db.not_found,
                artist_genres |-> db.artist_genres,
                track_dnb_status |->
                    IF clear THEN clear_track_dnb_status_cache(db.track_dnb_status).table
                    ELSE db.track_dnb_status,
                new_uris |-> <<>>, new_dnb_uris |-> <<>>, misses |-> <<>>]
        st == ResolveAll(st0, parse_records(fetch_opus(body), t), cat, t)
        m == Reconcile(pls.main, st.new_uris, t, CUTOFF_HOURS, <<>>)
        do_dnb == dnb_id # None /\ st.new_dnb_uris # <<>>
        d == Reconcile(pls.dnb, st.new_dnb_uris, t, CUTOFF_HOURS, <<DNB_MAX_TRACKS>>)
    IN  [db |-> [tracks |-> st.tracks, not_found |-> st.not_found,
                 artist_genres |-> st.artist_genres,
                 track_dnb_status |-> st.track_dnb_status],
         main |-> UrisOf(m.playlist),
         dnb |-> IF do_dnb THEN UrisOf(d.playlist) ELSE UrisOf(pls.dnb),
         out |-> [removed |-> m.removed, added |-> m.added,
                  dnb_removed |-> IF do_dnb THEN d.removed ELSE 0,
                  dnb_added |-> IF do_dnb THEN d.added ELSE 0,
                  not_found |-> Len(st.misses)]]

\* ------------------------------------------------------------------------
\* State
\* ------------------------------------------------------------------------

VARIABLES
    \* environment
    now,              \* the clock (station time, ms)
    feed,             \* the JSON body the feed endpoint returns
    catalog,          \* what sp.search answers
    clear_dnb_cache,  \* the CLEAR_DNB_CACHE setting
    dnb_playlist_id,  \* DNB_PLAYLIST_ID, None when not configured
    budget,           \* [ticks, changes, runs] still allowed
    \* SQLite store
    tracks, not_found, artist_genres, track_dnb_status,
    \* remote playlists: [main, dnb]
    playlist,
    \* the run: control point and locals of main(), search_track(),
    \* is_dnb_track(), remove_old() and add_new()
    pc, records, uri, from_cache, track, artists_left, is_dnb,
    new_uris, new_dnb_uris, misses,
    cur,              \* the playlist being reconciled: "main" or "dnb"
    args,             \* remove_old's [cutoff_hours, max_tracks]
    snapshot, chunks, removed, to_add, addq, added,
    out,              \* the counts of the summary
    \* history
    calls,            \* remote calls and requests of the current run, by kind
    lastIssued,       \* key -> day of the last resolve that issued a remote search
                      \* for a record the catalog does not resolve
    lastMiss,         \* key -> day of the last resolve that returned not-found after searching
    artistIssued,     \* the artist ids sp.artist was called for, in any run
    startDb,          \* the four tables when the current run started
    ref,              \* [db, playlist] the reference run started from
    prevExit,         \* how the previous run ended: "none", "complete", "aborted"
    envSince,         \* the environment is as it was when the reference run started
    twin,             \* the current run follows a complete run in the same environment
    resumed           \* the current run follows an aborted run in the same environment

envVars == <<now, feed, catalog, clear_dnb_cache, dnb_playlist_id>>
dbVars == <<tracks, not_found, artist_genres, track_dnb_status>>
resolveVars == <<records, uri, from_cache, track, artists_left, is_dnb,
                 new_uris, new_dnb_uris, misses>>
reconcileVars == <<cur, args, snapshot, chunks, removed, to_add, addq, added>>
searchHist == <<lastIssued, lastMiss, artistIssued>>
runHist == <<startDb, ref, prevExit, envSince, twin, resumed>>
vars == <<envVars, budget, dbVars, playlist, pc, resolveVars, reconcileVars, out,
          calls, searchHist, runHist>>

Db == [tracks |-> tracks, not_found |-> not_found,
       artist_genres |-> artist_genres, track_dnb_status |-> track_dnb_status]

NoCalls == [search |-> 0, track |-> 0, artist |-> 0, snapshot |-> 0,
            remove |-> 0, add |-> 0]
NoOut == [removed |-> 0, added |-> 0, dnb_removed |-> 0, dnb_added |-> 0,
          not_found |-> 0]
NoRef == [db |-> [tracks |-> EmptyTable, not_found |-> EmptyTable,
                  artist_genres |-> EmptyTable, track_dnb_status |-> EmptyTable],
          playlist |-> [main |-> <<>>, dnb |-> <<>>]]

\* the locals of a run before it starts
LocalsInit ==
    /\ records = <<>> /\ uri = None /\ from_cache = FALSE
    /\ track = CatalogTrack(None) /\ artists_left = <<>> /\ is_dnb = FALSE
    /\ new_uris = <<>> /\ new_dnb_uris = <<>> /\ misses = <<>>
    /\ cur = "main" /\ args = [cutoff_hours |-> CUTOFF_HOURS, max_tracks |-> <<>>]
    /\ snapshot = <<>> /\ chunks = <<>> /\ removed = 0
    /\ to_add = <<>> /\ addq = <<>> /\ added = 0

HistInit ==
    /\ calls = NoCalls
    /\ lastIssued = EmptyTable /\ lastMiss = EmptyTable /\ artistIssued = {}
    /\ startDb = NoRef.db /\ ref = NoRef
    /\ prevExit = "none" /\ envSince = FALSE /\ twin = FALSE /\ resumed = FALSE

\* a fresh store (ensure_cache on a new file), some playlists, some feed and catalog
Init ==
    /\ now = T0
    /\ feed \in FeedChoices
    /\ catalog \in CatalogChoices
    /\ clear_dnb_cache = FALSE
    /\ dnb_playlist_id = "dnb"
    /\ budget = [ticks |-> MaxTicks, changes |-> MaxEnvChanges, runs |-> MaxRuns]
    /\ tracks = EmptyTable /\ not_found = EmptyTable
    /\ artist_genres = EmptyTable /\ track_dnb_status = EmptyTable
    /\ playlist \in PlaylistChoices
    /\ pc = "idle"
    /\ out = NoOut
    /\ LocalsInit
    /\ HistInit

\* ------------------------------------------------------------------------
\* The environment's steps
\* ------------------------------------------------------------------------

\* the clock advances.  The clock is read by parse_records, search_track and
\* remove_old, and by the catalog when it stamps an appended slot; an advance at
\* any other point of a run is the same as one before the next of these
Tick ==
    /\ budget.ticks > 0
    /\ pc \in {"idle", "request", "resolve", "remove_old", "adding"}
    /\ \E d \in TickSteps : now' = now + d
    /\ budget' = [budget EXCEPT !.ticks = @ - 1]
    /\ envSince' = FALSE
    /\ UNCHANGED <<feed, catalog, clear_dnb_cache, dnb_playlist_id, dbVars, playlist,
                   pc, resolveVars, reconcileVars, out, calls, searchHist,
                   startDb, ref, prevExit, twin, resumed>>

\* between runs the station plays other songs, the catalog gains or loses
\* tracks, the operator changes the configuration
EnvChange ==
    /\ pc = "idle"
    /\ budget.changes > 0
    /\ \/ /\ feed' \in FeedChoices \ {feed}
          /\ UNCHANGED <<catalog, clear_dnb_cache, dnb_playlist_id>>
       \/ /\ catalog' \in CatalogChoices \ {catalog}
          /\ UNCHANGED <<feed, clear_dnb_cache, dnb_playlist_id>>
       \/ /\ clear_dnb_cache' = ~clear_dnb_cache
          /\ UNCHANGED <<feed, catalog, dnb_playlist_id>>
       \/ /\ dnb_playlist_id' = IF dnb_playlist_id = None THEN "dnb" ELSE None
          /\ UNCHANGED <<feed, catalog, clear_dnb_cache>>
    /\ budget' = [budget EXCEPT !.changes = @ - 1]
    /\ envSince' = FALSE
    /\ UNCHANGED <<now, dbVars, playlist, pc, resolveVars, reconcileVars, out, calls,
                   searchHist, startDb, ref, prevExit, twin, resumed>>

\* ------------------------------------------------------------------------
\* main(): start, fetch, resolve and classify
\* ------------------------------------------------------------------------

\* the locals as a run leaves them
ResetLocals ==
    /\ records' = <<>> /\ uri' = None /\ from_cache' = FALSE
    /\ track' = CatalogTrack(None) /\ artists_left' = <<>> /\ is_dnb' = FALSE
    /\ new_uris' = <<>> /\ new_dnb_uris' = <<>> /\ misses' = <<>>
    /\ cur' = "main" /\ args' = [cutoff_hours |-> CUTOFF_HOURS, max_tracks |-> <<>>]
    /\ snapshot' = <<>> /\ chunks' = <<>> /\ removed' = 0
    /\ to_add' = <<>> /\ addq' = <<>> /\ added' = 0

\* main() up to fetch_opus: get_spotify(), ensure_cache(), and the clearing of
\* the classification cache when CLEAR_DNB_CACHE is set
StartRun ==
    /\ pc = "idle"
    /\ budget.runs > 0
    /\ budget' = [budget EXCEPT !.runs = @ - 1]
    /\ track_dnb_status' =
          IF clear_dnb_cache THEN clear_track_dnb_status_cache(track_dnb_status).table
          ELSE track_dnb_status
    /\ pc' = "request"
    /\ out' = NoOut
    /\ calls' = NoCalls
    /\ startDb' = Db
    /\ twin' = (prevExit = "complete" /\ envSince)
    /\ resumed' = (prevExit = "aborted" /\ envSince)
    /\ ref' = IF prevExit = "aborted" /\ envSince THEN ref
              ELSE [db |-> Db, playlist |-> playlist]
    /\ envSince' = TRUE
    /\ UNCHANGED <<envVars, tracks, not_found, artist_genres, playlist,
                   resolveVars, reconcileVars, searchHist, prevExit>>

\* fetch_opus(): resp = requests.get(...) returns and resp.raise_for_status()
\* passes
Request ==
    /\ pc = "request"
    /\ pc' = "fetch"
    /\ UNCHANGED <<envVars, budget, dbVars, playlist, resolveVars, reconcileVars,
                   out, calls, searchHist, runHist>>

\* records = parse_records(fetch_opus()), the response being at hand
Fetch ==
    /\ pc = "fetch"
    /\ ~BodyRaises(feed)
    /\ ~ParseRaises(fetch_opus(feed))
    /\ records' = parse_records(fetch_opus(feed), now)
    /\ pc' = "resolve"
    /\ UNCHANGED <<envVars, budget, dbVars, playlist, uri, from_cache, track,
                   artists_left, is_dnb, new_uris, new_dnb_uris, misses,
                   reconcileVars, out, calls, searchHist, runHist>>

\* the key search_track computes for the record at hand
CurKey == DedupKey(Head(records)[2], Head(records)[3])

\* the catalog holds no match for the record, by either search
CatalogMisses(artist, title) ==
    search_track(EmptyTable, EmptyTable, catalog, now, artist, title).uri = None

\* search_track would go to the catalog for the record at hand
SearchGoesRemote ==
    /\ ~Truthy(cached_lookup(tracks, CurKey))
    /\ ~is_recently_not_found(not_found, CurKey, now)

\* uri, from_cache = search_track(sp, conn, artist, title, return_cache_flag=True),
\* and the else branch of main()'s loop when nothing was found
SearchTrack ==
    /\ pc = "resolve"
    /\ records # <<>>
    /\ LET r == search_track(tracks, not_found, catalog, now,
                             Head(records)[2], Head(records)[3])
       IN  /\ tracks' = r.tracks
           /\ not_found' = r.not_found
           /\ uri' = r.uri
           /\ from_cache' = r.from_cache
           /\ calls' = [calls EXCEPT !.search = @ + r.searches]
           /\ lastIssued' = IF r.searches > 0 /\ r.uri = None
                            THEN Put(lastIssued, CurKey, DateOf(now)) ELSE lastIssued
           /\ lastMiss' = IF r.searches > 0 /\ r.uri = None
                          THEN Put(lastMiss, CurKey, DateOf(now)) ELSE lastMiss
           /\ UNCHANGED artistIssued
           /\ IF Truthy(r.uri)
              THEN /\ pc' = "classify"
                   /\ UNCHANGED <<records, misses>>
              ELSE /\ pc' = "resolve"
                   /\ misses' = Append(misses, <<Head(records)[2], Head(records)[3]>>)
                   /\ records' = Tail(records)
    /\ UNCHANGED <<envVars, budget, artist_genres, track_dnb_status, playlist, track,
                   artists_left, is_dnb, new_uris, new_dnb_uris, reconcileVars, out,
                   runHist>>

\* the run ends before its summary: an exception propagates out of main(), or
\* the process is stopped; what was committed and requested so far stays
Abort ==
    /\ pc' = "idle"
    /\ ResetLocals
    /\ prevExit' = "aborted"
    /\ UNCHANGED <<envVars, budget, dbVars, playlist, out,
                   startDb, ref, envSince, twin, resumed>>

\* a failing search that marks the key as not found before it gives up
SearchTrackError_marks_miss ==
    /\ pc = "resolve"
    /\ records # <<>>
    /\ SearchGoesRemote
    /\ calls' = [calls EXCEPT !.search = @ + 1]
    /\ not_found' = cache_not_found(not_found, CurKey, now)
    /\ pc' = "idle"
    /\ ResetLocals
    /\ prevExit' = "aborted"
    /\ UNCHANGED <<envVars, budget, tracks, artist_genres, track_dnb_status, playlist,
                   out, searchHist, startDb, ref, envSince, twin, resumed>>

\* sp.search raises in search_track, at the first search or at the fallback
SearchTrackError ==
    /\ pc = "resolve"
    /\ records # <<>>
    /\ SearchGoesRemote
    /\ \E n \in 1..2 :
          /\ n = 2 => NeedsFallback(catalog, Head(records)[2], Head(records)[3])
          /\ calls' = [calls EXCEPT !.search = @ + n]
    /\ lastIssued' = IF CatalogMisses(Head(records)[2], Head(records)[3])
                     THEN Put(lastIssued, CurKey, DateOf(now)) ELSE lastIssued
    /\ UNCHANGED <<lastMiss, artistIssued>>
    /\ Abort

\* a loop body that puts every resolved uri on the genre list
Collect_every_uri(dnb) ==
    /\ new_uris' = Append(new_uris, uri)
    /\ new_dnb_uris' = Append(new_dnb_uris, uri)
    /\ records' = Tail(records)
    /\ pc' = "resolve"

\* the record at hand is done: its uri joins new_uris, and new_dnb_uris when dnb
Collect(dnb) ==
    /\ new_uris' = Append(new_uris, uri)
    /\ new_dnb_uris' = IF dnb THEN Append(new_dnb_uris, uri) ELSE new_dnb_uris
    /\ records' = Tail(records)
    /\ pc' = "resolve"

\* main(): the classification of uri is cached
ClassifyCached ==
    /\ pc = "classify"
    /\ get_cached_track_dnb_status(track_dnb_status, uri) # <<>>
    /\ track' = get_cached_track_dnb_status(track_dnb_status, uri)[2]
    /\ is_dnb' = get_cached_track_dnb_status(track_dnb_status, uri)[1]
    /\ Collect(get_cached_track_dnb_status(track_dnb_status, uri)[1])
    /\ UNCHANGED <<envVars, budget, dbVars, playlist, uri, from_cache, artists_left,
                   misses, reconcileVars, out, calls, searchHist, runHist>>

\* a loop body that fetches and classifies the track whether or not it has a row
TrackDetail_always ==
    /\ pc = "classify"
    /\ track' = CatalogTrack(uri)
    /\ artists_left' = CatalogTrack(uri).artists
    /\ is_dnb' = FALSE
    /\ calls' = [calls EXCEPT !.track = @ + 1]
    /\ pc' = IF CatalogTrack(uri).artists = <<>> THEN "store" ELSE "walk"
    /\ UNCHANGED <<envVars, budget, dbVars, playlist, records, uri, from_cache,
                   new_uris, new_dnb_uris, misses, reconcileVars, out,
                   searchHist, runHist>>

\* main(): track = sp.track(uri), and is_dnb_track starts on its artists
TrackDetail ==
    /\ pc = "classify"
    /\ get_cached_track_dnb_status(track_dnb_status, uri) = <<>>
    /\ track' = CatalogTrack(uri)
    /\ artists_left' = CatalogTrack(uri).artists
    /\ is_dnb' = FALSE
    /\ calls' = [calls EXCEPT !.track = @ + 1]
    /\ pc' = IF CatalogTrack(uri).artists = <<>> THEN "store" ELSE "walk"
    /\ UNCHANGED <<envVars, budget, dbVars, playlist, records, uri, from_cache,
                   new_uris, new_dnb_uris, misses, reconcileVars, out,
                   searchHist, runHist>>

\* sp.track raises
TrackDetailError ==
    /\ pc = "classify"
    /\ get_cached_track_dnb_status(track_dnb_status, uri) = <<>>
    /\ calls' = [calls EXCEPT !.track = @ + 1]
    /\ UNCHANGED searchHist
    /\ Abort

\* is_dnb_track: one iteration of its loop, on the artist at hand; the loop
\* ends when this artist matches or was the last
ArtistVisit ==
    /\ pc = "walk"
    /\ artists_left # <<>>
    /\ LET r == ArtistStep(artist_genres, Head(artists_left),
                           CatalogGenres(Head(artists_left)))
       IN  /\ artist_genres' = r.artist_genres
           /\ calls' = [calls EXCEPT !.artist = @ + IF r.remote THEN 1 ELSE 0]
           /\ is_dnb' = r.is_dnb
           /\ artists_left' = IF r.is_dnb THEN artists_left ELSE Tail(artists_left)
           /\ pc' = IF r.is_dnb \/ Tail(artists_left) = <<>> THEN "store" ELSE "walk"
           /\ artistIssued' = IF r.remote THEN artistIssued \cup {Head(artists_left)}
                              ELSE artistIssued
    /\ UNCHANGED <<envVars, budget, tracks, not_found, track_dnb_status, playlist,
                   records, uri, from_cache, track, new_uris, new_dnb_uris, misses,
                   reconcileVars, out, lastIssued, lastMiss, runHist>>

\* sp.artist raises in is_dnb_track
ArtistError ==
    /\ pc = "walk"
    /\ artists_left # <<>>
    /\ get_cached_artist_genres(artist_genres, Head(artists_left)) = <<>>
    /\ calls' = [calls EXCEPT !.artist = @ + 1]
    /\ artistIssued' = artistIssued \cup {Head(artists_left)}
    /\ UNCHANGED <<lastIssued, lastMiss>>
    /\ Abort

\* main(): cache_track_dnb_status(conn, uri, is_dnb, track), and the uri joins
\* the lists
ClassifyStore ==
    /\ pc = "store"
    /\ track_dnb_status' = cache_track_dnb_status(track_dnb_status, uri, is_dnb, track)
    /\ Collect(is_dnb)
    /\ artists_left' = <<>>
    /\ UNCHANGED <<envVars, budget, tracks, not_found, artist_genres, playlist, uri,
                   from_cache, track, is_dnb, misses, reconcileVars, out, calls,
                   searchHist, runHist>>

\* ------------------------------------------------------------------------
\* main(): the playlists
\* ------------------------------------------------------------------------

\* the track ids main() hands to the playlist at hand
CurUris == IF cur = "main" THEN new_uris ELSE new_dnb_uris

\* main() reconciles the genre playlist
DnbWanted == dnb_playlist_id # None /\ new_dnb_uris # <<>>

TakeSnapshot(id, max_tracks) ==
    /\ cur' = id
    /\ args' = [cutoff_hours |-> CUTOFF_HOURS, max_tracks |-> max_tracks]
    /\ snapshot' = playlist_snapshot(playlist[id])
    /\ calls' = [calls EXCEPT !.snapshot = @ + 1]
    /\ pc' = "remove_old"
    /\ chunks' = <<>> /\ removed' = 0 /\ to_add' = <<>> /\ addq' = <<>> /\ added' = 0
    /\ UNCHANGED <<envVars, budget, dbVars, playlist, resolveVars, out,
                   searchHist, runHist>>

\* a main() that reads the main playlist before its loop over the records is
\* done
SnapshotMain_early ==
    /\ pc = "resolve"
    /\ TakeSnapshot("main", <<>>)

\* snapshot_before = playlist_snapshot(sp, PLAYLIST_ID)
SnapshotMain ==
    /\ pc = "resolve"
    /\ records = <<>>
    /\ TakeSnapshot("main", <<>>)

\* dnb_snapshot_before = playlist_snapshot(sp, DNB_PLAYLIST_ID)
SnapshotDnb ==
    /\ pc = "main_done"
    /\ DnbWanted
    /\ TakeSnapshot("dnb", <<DNB_MAX_TRACKS>>)

\* sp.playlist_items or sp.next raises in playlist_snapshot
SnapshotError ==
    /\ \/ pc = "resolve" /\ records = <<>>
       \/ pc = "main_done" /\ DnbWanted
       \/ pc = "after_remove" /\ removed # 0
    /\ calls' = [calls EXCEPT !.snapshot = @ + 1]
    /\ UNCHANGED searchHist
    /\ Abort

\* remove_old up to its first request: the selection, the payload, and the
\* return of 0 when nothing is selected; removed is what it will return
RemoveOld ==
    /\ pc = "remove_old"
    /\ LET payload == RemovePayload(snapshot, now, args.cutoff_hours, args.max_tracks)
       IN  /\ chunks' = Chunks(payload)
           /\ removed' = RemovedCount(payload)
           /\ pc' = IF payload = <<>> THEN "after_remove" ELSE "removing"
    /\ UNCHANGED <<envVars, budget, dbVars, playlist, resolveVars, cur, args, snapshot,
                   to_add, addq, added, out, calls, searchHist, runHist>>

\* remove_old: one sp.playlist_remove_specific_occurrences_of_items request
RemoveBatch ==
    /\ pc = "removing"
    /\ chunks # <<>>
    /\ playlist' = [playlist EXCEPT ![cur] = RemoteRemove(@, Head(chunks))]
    /\ chunks' = Tail(chunks)
    /\ calls' = [calls EXCEPT !.remove = @ + 1]
    /\ pc' = IF Tail(chunks) = <<>> THEN "after_remove" ELSE "removing"
    /\ UNCHANGED <<envVars, budget, dbVars, resolveVars, cur, args, snapshot, removed,
                   to_add, addq, added, out, searchHist, runHist>>

\* the removal request raises
RemoveBatchError ==
    /\ pc = "removing"
    /\ chunks # <<>>
    /\ calls' = [calls EXCEPT !.remove = @ + 1]
    /\ UNCHANGED searchHist
    /\ Abort

\* a summary that reports the removal requests instead of the slots
OutRemoved_requests(n) == IF cur = "main" THEN [out EXCEPT !.removed = calls.remove]
                          ELSE [out EXCEPT !.dnb_removed = calls.remove]

\* the counts of the summary, as main() learns them
OutRemoved(n) == IF cur = "main" THEN [out EXCEPT !.removed = n]
                 ELSE [out EXCEPT !.dnb_removed = n]
OutAdded(n) == IF cur = "main" THEN [out EXCEPT !.added = n]
               ELSE [out EXCEPT !.dnb_added = n]

\* a main() that computes the additions from the snapshot read before the
\* removal, whatever remove_old returned
ReuseSnapshot_after_removal ==
    /\ pc = "after_remove"
    /\ to_add' = ToAdd(CurUris, snapshot)
    /\ addq' = Chunks(ToAdd(CurUris, snapshot))
    /\ added' = 0
    /\ out' = OutRemoved(removed)
    /\ pc' = "adding"
    /\ UNCHANGED <<envVars, budget, dbVars, playlist, resolveVars, cur, args, snapshot,
                   chunks, removed, calls, searchHist, runHist>>

\* main() after remove_old returned 0: the snapshot is reused, to_add computed
ReuseSnapshot ==
    /\ pc = "after_remove"
    /\ removed = 0
    /\ to_add' = ToAdd(CurUris, snapshot)
    /\ addq' = Chunks(ToAdd(CurUris, snapshot))
    /\ added' = 0
    /\ out' = OutRemoved(removed)
    /\ pc' = "adding"
    /\ UNCHANGED <<envVars, budget, dbVars, playlist, resolveVars, cur, args, snapshot,
                   chunks, removed, calls, searchHist, runHist>>

\* a main() that reads the snapshot again whatever remove_old returned
Resnapshot_unconditional ==
    /\ pc = "after_remove"
    /\ snapshot' = playlist_snapshot(playlist[cur])
    /\ calls' = [calls EXCEPT !.snapshot = @ + 1]
    /\ to_add' = ToAdd(CurUris, playlist_snapshot(playlist[cur]))
    /\ addq' = Chunks(ToAdd(CurUris, playlist_snapshot(playlist[cur])))
    /\ added' = 0
    /\ out' = OutRemoved(removed)
    /\ pc' = "adding"
    /\ UNCHANGED <<envVars, budget, dbVars, playlist, resolveVars, cur, args,
                   chunks, removed, searchHist, runHist>>

\* main() after remove_old removed something: the snapshot is read again
Resnapshot ==
    /\ pc = "after_remove"
    /\ removed # 0
    /\ snapshot' = playlist_snapshot(playlist[cur])
    /\ calls' = [calls EXCEPT !.snapshot = @ + 1]
    /\ to_add' = ToAdd(CurUris, playlist_snapshot(playlist[cur]))
    /\ addq' = Chunks(ToAdd(CurUris, playlist_snapshot(playlist[cur])))
    /\ added' = 0
    /\ out' = OutRemoved(removed)
    /\ pc' = "adding"
    /\ UNCHANGED <<envVars, budget, dbVars, playlist, resolveVars, cur, args,
                   chunks, removed, searchHist, runHist>>

\* add_new: one sp.playlist_add_items request
AddBatch ==
    /\ pc = "adding"
    /\ addq # <<>>
    /\ playlist' = [playlist EXCEPT ![cur] = RemoteAdd(@, Head(addq), now)]
    /\ added' = added + Len(Head(addq))
    /\ addq' = Tail(addq)
    /\ calls' = [calls EXCEPT !.add = @ + 1]
    /\ UNCHANGED <<envVars, budget, dbVars, pc, resolveVars, cur, args, snapshot,
                   chunks, removed, to_add, out, searchHist, runHist>>

\* the append request raises
AddBatchError ==
    /\ pc = "adding"
    /\ addq # <<>>
    /\ calls' = [calls EXCEPT !.add = @ + 1]
    /\ UNCHANGED searchHist
    /\ Abort

\* add_new returns
AddDone ==
    /\ pc = "adding"
    /\ addq = <<>>
    /\ out' = OutAdded(added)
    /\ pc' = IF cur = "main" THEN "main_done" ELSE "dnb_done"
    /\ UNCHANGED <<envVars, budget, dbVars, playlist, resolveVars, reconcileVars,
                   calls, searchHist, runHist>>

\* the summary: main() returns
Summary ==
    /\ \/ pc = "main_done" /\ ~DnbWanted
       \/ pc = "dnb_done"
    /\ pc' = "idle"
    /\ ResetLocals
    /\ prevExit' = "complete"
    /\ out' = [out EXCEPT !.not_found = Len(misses)]
    /\ UNCHANGED <<envVars, budget, dbVars, playlist, calls, searchHist,
                   startDb, ref, envSince, twin, resumed>>

\* the process is stopped between two steps; a stop between the response and
\* its decoding is the same as one before the response
Interrupt ==
    /\ pc \notin {"idle", "fetch"}
    /\ UNCHANGED <<calls, searchHist>>
    /\ Abort

\* the feed request raises in fetch_opus (requests.get, raise_for_status)
FetchError ==
    /\ pc = "request"
    /\ UNCHANGED <<calls, searchHist>>
    /\ Abort

\* fetch_opus raises while it looks for the list in the decoded body
FetchBodyError ==
    /\ pc = "fetch"
    /\ BodyRaises(feed)
    /\ UNCHANGED <<calls, searchHist>>
    /\ Abort

\* parse_records raises on an item of the list fetch_opus returned
ParseError ==
    /\ pc = "fetch"
    /\ ~BodyRaises(feed)
    /\ ParseRaises(fetch_opus(feed))
    /\ UNCHANGED <<calls, searchHist>>
    /\ Abort

Next ==
    \/ Tick \/ EnvChange
    \/ StartRun \/ Request \/ Fetch \/ FetchError \/ FetchBodyError \/ ParseError
    \/ SearchTrack \/ SearchTrackError
    \/ ClassifyCached \/ TrackDetail \/ TrackDetailError
    \/ ArtistVisit \/ ArtistError \/ ClassifyStore
    \/ SnapshotMain \/ SnapshotDnb \/ SnapshotError
    \/ RemoveOld \/ RemoveBatch \/ RemoveBatchError
    \/ ReuseSnapshot \/ Resnapshot
    \/ AddBatch \/ AddBatchError \/ AddDone
    \/ Summary \/ Interrupt

Spec == Init /\ [][Next]_vars

\* ------------------------------------------------------------------------
\* remove_old on its own: any snapshot, any policy
\* ------------------------------------------------------------------------

\* slots of a snapshot given to remove_old
MaxSlots == 3

\* added_at of the slots: older than the 72 h cutoff, between 50 h and 72 h, recent
RemoveAges == { T0 - 80 * MS_PER_HOUR, T0 - 60 * MS_PER_HOUR, T0 - MS_PER_HOUR }

RemoveSlots == { Slot(a, u) : a \in RemoveAges, u \in Uris }

\* longer snapshots: three old slots of three track ids, which make two
\* removal batches, followed by two slots of any age and id
LongPlaylists ==
    { <<Slot(T0 - 80 * MS_PER_HOUR, f[1]), Slot(T0 - 80 * MS_PER_HOUR, f[2]),
        Slot(T0 - 80 * MS_PER_HOUR, f[3]), s4, s5>> :
        f \in { g \in [1..3 -> Uris] : \A i, j \in 1..3 : g[i] = g[j] => i = j },
        s4 \in RemoveSlots, s5 \in RemoveSlots }

RemovePlaylists == UNION { [1..n -> RemoveSlots] : n \in 0..MaxSlots } \cup LongPlaylists

\* remove_old(sp, snapshot, playlist_id, cutoff_hours, max_tracks) is called on
\* a snapshot just taken
InitRemove ==
    /\ now = T0
    /\ feed = [shape |-> "dict", items |-> <<>>]
    /\ catalog = EmptyTable
    /\ clear_dnb_cache = FALSE
    /\ dnb_playlist_id = "dnb"
    /\ budget = [ticks |-> 0, changes |-> 0, runs |-> 0]
    /\ tracks = EmptyTable /\ not_found = EmptyTable
    /\ artist_genres = EmptyTable /\ track_dnb_status = EmptyTable
    /\ \E pl \in RemovePlaylists :
          /\ playlist = [main |-> pl, dnb |-> <<>>]
          /\ snapshot = playlist_snapshot(pl)
    /\ pc = "remove_old"
    /\ out = NoOut
    /\ records = <<>> /\ uri = None /\ from_cache = FALSE
    /\ track = CatalogTrack(None) /\ artists_left = <<>> /\ is_dnb = FALSE
    /\ new_uris = <<>> /\ new_dnb_uris = <<>> /\ misses = <<>>
    /\ cur = "main"
    /\ args \in [cutoff_hours : {CUTOFF_HOURS, 50},
                 max_tracks : {<<>>} \cup { <<n>> : n \in 0..(MaxSlots + 1) }]
    /\ chunks = <<>> /\ removed = 0
    /\ to_add = <<>> /\ addq = <<>> /\ added = 0
    /\ HistInit

NextRemove == RemoveOld \/ RemoveBatch

SpecRemove == InitRemove /\ [][NextRemove]_vars

\* ------------------------------------------------------------------------
\* add_new on its own: any list of ids
\* ------------------------------------------------------------------------

\* ids of a list given to add_new
MaxAdd == 5

AddLists == UNION { [1..n -> Uris] : n \in 0..MaxAdd }

\* add_new(sp, uris, playlist_id) is called with the list to_add on a playlist
\* whose snapshot is at hand
InitAdd ==
    /\ now = T0
    /\ feed = [shape |-> "dict", items |-> <<>>]
    /\ catalog = EmptyTable
    /\ clear_dnb_cache = FALSE
    /\ dnb_playlist_id = "dnb"
    /\ budget = [ticks |-> 0, changes |-> 0, runs |-> 0]
    /\ tracks = EmptyTable /\ not_found = EmptyTable
    /\ artist_genres = EmptyTable /\ track_dnb_status = EmptyTable
    /\ \E pl \in {<<>>, <<Slot(T0 - MS_PER_HOUR, "u3")>>} :
          /\ playlist = [main |-> pl, dnb |-> <<>>]
          /\ snapshot = playlist_snapshot(pl)
    /\ pc = "adding"
    /\ out = NoOut
    /\ records = <<>> /\ uri = None /\ from_cache = FALSE
    /\ track = CatalogTrack(None) /\ artists_left = <<>> /\ is_dnb = FALSE
    /\ new_uris = <<>> /\ new_dnb_uris = <<>> /\ misses = <<>>
    /\ cur = "main"
    /\ args = [cutoff_hours |-> CUTOFF_HOURS, max_tracks |-> <<>>]
    /\ chunks = <<>> /\ removed = 0
    /\ \E l \in AddLists : to_add = l /\ addq = Chunks(l)
    /\ added = 0
    /\ HistInit

NextAdd == AddBatch \/ AddDone

SpecAdd == InitAdd /\ [][NextAdd]_vars

\* ------------------------------------------------------------------------
\* parse_records on its own: any list of items around the cutoff
\* ------------------------------------------------------------------------

\* items of a list given to parse_records
MaxItems == 3

\* the cutoff of parse_records at the clock T0
Cutoff0 == T0 - CUTOFF_HOURS * MS_PER_HOUR

\* timestamps of the items: at the cutoff, a millisecond to either side, recent
ParseTimes == { Cutoff0 - 1, Cutoff0, Cutoff0 + 1, T0 - 2 * MS_PER_HOUR, T0 - MS_PER_HOUR }

ParseItems ==
    { Item(ms, song) : ms \in ParseTimes, song \in {SongAx, SongaX, SongABy, SongBad} }
      \cup { BadDateItem(SongABy), HugeItem(SongABy), Item(T0 - MS_PER_HOUR, <<>>),
              Item(T0 - MS_PER_HOUR, SongTight), Item(T0 - MS_PER_HOUR, SongJZ) }

ParseLists == UNION { [1..n -> ParseItems] : n \in 0..MaxItems }

\* main() is about to call parse_records(fetch_opus()) and the feed returns a
\* bare list
InitParse ==
    /\ now = T0
    /\ \E l \in ParseLists : feed = [shape |-> "list", items |-> l]
    /\ catalog = EmptyTable
    /\ clear_dnb_cache = FALSE
    /\ dnb_playlist_id = "dnb"
    /\ budget = [ticks |-> 0, changes |-> 0, runs |-> 0]
    /\ tracks = EmptyTable /\ not_found = EmptyTable
    /\ artist_genres = EmptyTable /\ track_dnb_status = EmptyTable
    /\ playlist = [main |-> <<>>, dnb |-> <<>>]
    /\ pc = "fetch"
    /\ out = NoOut
    /\ LocalsInit
    /\ HistInit

NextParse == Fetch \/ ParseError

SpecParse == InitParse /\ [][NextParse]_vars

\* ------------------------------------------------------------------------
\* Properties
\* ------------------------------------------------------------------------

\* a run has just completed in the environment its reference run started in
RunDone == pc = "idle" /\ prevExit = "complete" /\ envSince

\* search_track is at the record at hand
AtResolve == pc = "resolve" /\ records # <<>>

\* the step is a call of search_track that issues a remote search
IssuesSearch == AtResolve /\ calls'.search > calls.search

\* the step is a call of search_track that returns
ResolveReturns == AtResolve /\ pc' # "idle" /\ now' = now

\* C1: in every reachable state no DedupKey has both a row in tracks
\* (resolution cache) and a row in not_found (negative cache).
C1_NoKeyInBothCaches == (DOMAIN tracks) \cap (DOMAIN not_found) = {}

\* C1 witness: a key that had a negative entry was resolved later, and the
\* negative entry is gone
C1_Witness ==
    \E k \in DOMAIN tracks : k \in DOMAIN lastMiss /\ k \notin DOMAIN not_found

\* C2 as stated: for a record the catalog does not resolve, a resolve that
\* issues remote searches is never preceded, on the same calendar day, by
\* another resolve of the same key that issued remote searches.
C2_Original ==
    [][ (IssuesSearch /\ CatalogMisses(Head(records)[2], Head(records)[3]))
          => ~(CurKey \in DOMAIN lastIssued /\ lastIssued[CurKey] = DateOf(now)) ]_vars

\* C2 amended: once a resolve of a key has returned not-found after remote
\* searches on a day, no later resolve of that key on that day issues a
\* remote search, and each such resolve returns not-found from the cache.
C2_OneMissPerDay ==
    [][ (AtResolve /\ CurKey \in DOMAIN lastMiss /\ lastMiss[CurKey] = DateOf(now))
          => /\ calls'.search = calls.search
             /\ ResolveReturns => (uri' = None /\ from_cache') ]_vars

\* C2 witness: a resolve has returned not-found from the negative cache, with
\* no remote search in the run, for a key that missed earlier the same day
C2_Witness ==
    /\ pc = "resolve" /\ uri = None /\ from_cache /\ misses # <<>>
    /\ calls.search = 0
    /\ LET k == DedupKey(misses[Len(misses)][1], misses[Len(misses)][2])
       IN  k \in DOMAIN lastMiss /\ lastMiss[k] = DateOf(now)

\* the payload remove_old still has to send, as one list
RECURSIVE Flatten(_)
Flatten(cs) == IF cs = <<>> THEN <<>> ELSE Head(cs) \o Flatten(Tail(cs))

\* C3: under MaxCount(n), when the snapshot has at most n slots, remove_old
\* returns 0 and issues no removal request, whatever the slots' added_at.
C3_Claim ==
    (pc = "after_remove" /\ args.max_tracks # <<>>
        /\ Len(snapshot) <= args.max_tracks[1])
      => (removed = 0 /\ calls.remove = 0)

\* C4: under MaxCount(n), n >= 0, when the snapshot has more than n slots,
\* remove_old selects exactly count - n slots, each addressed by its track id
\* and snapshot position, none of them newer than a slot it leaves.
C4_Claim ==
    (args.max_tracks # <<>> /\ Len(snapshot) > args.max_tracks[1])
      => /\ pc = "after_remove" => removed = Len(snapshot) - args.max_tracks[1]
         /\ (pc = "removing" /\ calls.remove = 0) =>
              LET payload == Flatten(chunks)
                  sel == UNION { { payload[i].positions[q] :
                                     q \in 1..Len(payload[i].positions) }
                                 : i \in 1..Len(payload) }
              IN  /\ removed = Len(snapshot) - args.max_tracks[1]
                  /\ Cardinality(sel) = removed
                  /\ \A i \in 1..Len(payload) :
                        \A q \in 1..Len(payload[i].positions) :
                           snapshot[payload[i].positions[q] + 1][3] = payload[i].uri
                  /\ \A a \in sel : \A b \in (0..(Len(snapshot) - 1)) \ sel :
                        snapshot[a + 1][2] <= snapshot[b + 1][2]

\* C5: once remove_old has issued all its requests, the playlist is the
\* snapshot with exactly the eligible slots deleted.
C5_Claim ==
    pc = "after_remove" =>
       LET sel == TracksToRemove(snapshot, now, args.cutoff_hours, args.max_tracks)
           gone == { sel[i][1] : i \in 1..Len(sel) }
           kept == SelectSeq(snapshot, LAMBDA x : x[1] \notin gone)
       IN  playlist[cur] = [i \in 1..Len(kept) |-> Slot(kept[i][2], kept[i][3])]

\* C6: when the addition step is done, the playlist is the snapshot in use,
\* slot for slot, followed by the run's resolved ids that are not in that
\* snapshot, in resolution order.
C6_AdditionsAreTheDiff ==
    pc \in {"main_done", "dnb_done"} =>
       LET present == { snapshot[i][3] : i \in 1..Len(snapshot) }
           diff == SelectSeq(CurUris, LAMBDA u : u \notin present)
           pl == playlist[cur]
       IN  /\ Len(pl) = Len(snapshot) + Len(diff)
           /\ \A i \in 1..Len(snapshot) :
                 pl[i] = Slot(snapshot[i][2], snapshot[i][3])
           /\ \A j \in 1..Len(diff) : pl[Len(snapshot) + j].uri = diff[j]
           /\ added = Len(diff)

\* C6 witness: an addition step is done that appended something to a
\* non-empty snapshot and left out a resolved id that was already present
C6_Witness ==
    /\ pc = "main_done" /\ added > 0 /\ snapshot # <<>>
    /\ \E i \in 1..Len(new_uris) : \E j \in 1..Len(snapshot) :
          new_uris[i] = snapshot[j][3]

\* C7: a complete run that follows a complete run with the same feed, clock
\* and catalog removes 0 and adds 0 on both playlists and leaves the four
\* tables as they were.
C7_Claim ==
    (RunDone /\ twin) =>
       /\ out.removed = 0 /\ out.added = 0
       /\ out.dnb_removed = 0 /\ out.dnb_added = 0
       /\ Db = startDb

\* what one uninterrupted run from the reference state ends with; feed, clock,
\* catalog and settings are those of the reference run while envSince holds
Uninterrupted ==
    FullRun(ref.db, ref.playlist, feed, catalog, now, clear_dnb_cache, dnb_playlist_id)

\* C8: a complete run that follows an interrupted run with the same feed,
\* clock and catalog ends with the tables and the playlists (track ids in
\* order) that one uninterrupted run would have produced.
C8_Claim ==
    (RunDone /\ resumed) =>
       /\ Db = Uninterrupted.db
       /\ UrisOf(playlist.main) = Uninterrupted.main
       /\ UrisOf(playlist.dnb) = Uninterrupted.dnb

\* C9: when the key has a row in tracks, resolve returns that uri; when it
\* has none but a not_found row dated today, resolve returns not-found; in
\* both cases no remote search is issued and neither table is written.
C9_CacheFirst ==
    [][ /\ (AtResolve /\ CurKey \in DOMAIN tracks)
           => /\ calls'.search = calls.search
              /\ tracks' = tracks /\ not_found' = not_found
              /\ ResolveReturns => (uri' = tracks[CurKey] /\ pc' = "classify")
        /\ (AtResolve /\ CurKey \notin DOMAIN tracks /\ CurKey \in DOMAIN not_found
              /\ not_found[CurKey] = DateOf(now))
           => /\ calls'.search = calls.search
              /\ tracks' = tracks /\ not_found' = not_found
              /\ ResolveReturns => (uri' = None /\ pc' = "resolve") ]_vars

\* C9 witness: search_track has returned a uri from the resolution cache
C9_Witness ==
    /\ pc = "classify" /\ from_cache /\ uri \in Uris
    /\ calls.search = 0

\* C10: while the negative entry written on day D stands, recently_negative
\* is true exactly when the current date is D.
C10_NegativeIsDayScoped ==
    \A k \in DOMAIN lastMiss :
       k \in DOMAIN not_found =>
          (is_recently_not_found(not_found, k, now) <=> DateOf(now) = lastMiss[k])

\* C10 witness: a negative entry stands on a later day than the one it was
\* written on
C10_Witness ==
    \E k \in DOMAIN not_found :
       k \in DOMAIN lastMiss /\ lastMiss[k] < DateOf(now)

\* the keys the feeds of the model give rise to
FeedKeys ==
    UNION { { DedupKey(Latest(f.items, T0)[i][2], Latest(f.items, T0)[i][3]) :
                i \in 1..Len(Latest(f.items, T0)) } : f \in FeedChoices }

\* C11: from any tables the program reaches, cache_not_found(key) followed by
\* cache_store(key, uri) leaves is_recently_not_found(key) false and
\* cached_lookup(key) equal to uri, for every key and uri.
C11_StoreRetractsMiss ==
    \A k \in FeedKeys \cup DOMAIN tracks \cup DOMAIN not_found : \A u \in Uris :
       LET nf == cache_not_found(not_found, k, now)
           st == cache_store(tracks, nf, k, u)
       IN  /\ is_recently_not_found(nf, k, now)
           /\ ~is_recently_not_found(st.not_found, k, now)
           /\ cached_lookup(st.tracks, k) = u

\* C11 witness: search_track has just stored the uri of a key whose negative
\* entry, written on an earlier day, it retracted
C11_Witness ==
    /\ pc = "classify" /\ ~from_cache /\ records # <<>>
    /\ CurKey \in DOMAIN lastMiss /\ lastMiss[CurKey] < DateOf(now)
    /\ CurKey \notin DOMAIN not_found
    /\ cached_lookup(tracks, CurKey) = uri

\* the key built from the first artist alone, for the record at hand
FirstArtistKey == DedupKey(FirstArtist(Head(records)[2]), Head(records)[3])

\* the step is a call of search_track that returns a uri found by the
\* fallback search: both searches were issued
FallbackFinds ==
    /\ AtResolve /\ ResolveReturns
    /\ calls'.search = calls.search + 2
    /\ uri' # None

\* C12: when the fallback search finds the track, the uri is stored under the
\* key of the original artist string and title, and nothing is written, in
\* either table, under the key of the first artist alone.
C12_FallbackKeepsKey ==
    [][ FallbackFinds =>
          /\ FirstArtistKey # CurKey
          /\ CurKey \in DOMAIN tracks' /\ tracks'[CurKey] = uri'
          /\ \A k \in (DOMAIN tracks \cup DOMAIN tracks') \ {CurKey} :
                k \in DOMAIN tracks /\ k \in DOMAIN tracks' /\ tracks'[k] = tracks[k]
          /\ \A k \in (DOMAIN not_found \cup DOMAIN not_found') \ {CurKey} :
                /\ k \in DOMAIN not_found /\ k \in DOMAIN not_found'
                /\ not_found'[k] = not_found[k] ]_vars

\* C12 witness: search_track has returned a uri that only the fallback search
\* finds, and the first artist's key has no entry
C12_Witness ==
    /\ pc = "classify" /\ ~from_cache /\ records # <<>>
    /\ NeedsFallback(catalog, Head(records)[2], Head(records)[3])
    /\ calls.search >= 2
    /\ cached_lookup(tracks, CurKey) = uri
    /\ FirstArtistKey \notin DOMAIN tracks \cup DOMAIN not_found

\* parse_records has returned and main() has not consumed any record
Parsed == pc = "resolve" /\ new_uris = <<>> /\ misses = <<>> /\ calls = NoCalls

\* the items of the feed that pass the filters of parse_records, as the
\* (ts, artist, title) the loop body makes of them
Survivors ==
    { ParseItem(feed.items[i], now)[1] :
        i \in { j \in 1..Len(feed.items) : ParseItem(feed.items[j], now) # <<>> } }

\* C13: the output of parse_records is in ascending timestamp order, holds no
\* two records with the same DedupKey, and holds, for each DedupKey that
\* passes the filters, an occurrence with the earliest timestamp.
C13_SortedEarliestUnique ==
    Parsed =>
       /\ \A i, j \in 1..Len(records) : i < j => records[i][1] <= records[j][1]
       /\ \A i, j \in 1..Len(records) :
             i # j => DedupKey(records[i][2], records[i][3])
                        # DedupKey(records[j][2], records[j][3])
       /\ \A i \in 1..Len(records) :
             /\ records[i] \in Survivors
             /\ \A r \in Survivors :
                   DedupKey(r[2], r[3]) = DedupKey(records[i][2], records[i][3])
                     => records[i][1] <= r[1]
       /\ \A r \in Survivors : \E i \in 1..Len(records) :
             DedupKey(records[i][2], records[i][3]) = DedupKey(r[2], r[3])

\* C13 witness: three items pass the filters, out of timestamp order, two of
\* them with the same key, and two records come out
C13_Witness ==
    /\ Parsed /\ Len(feed.items) = 3 /\ Len(records) = 2
    /\ \A i \in 1..3 : ParseItem(feed.items[i], now) # <<>>
    /\ feed.items[1].dt.v > feed.items[3].dt.v
    /\ Cardinality(Survivors) = 3

\* the items of the feed, well-formed, that bear the timestamp ms
ItemsAt(ms) ==
    { i \in 1..Len(feed.items) :
        /\ parse_dt(RawDt(feed.items[i])) = <<ms>>
        /\ ArtTitle(RawSong(feed.items[i])) # <<>> }

\* the key parse_records gives the item
ItemKey(item) ==
    DedupKey(ArtTitle(RawSong(item))[1], CleanTitle(ArtTitle(RawSong(item))[2]))

\* the output holds a record of the item's key with the timestamp ms
InOutput(item, ms) ==
    \E i \in 1..Len(records) :
       /\ records[i][1] = ms
       /\ DedupKey(records[i][2], records[i][3]) = ItemKey(item)

\* C14 as stated: an item dated exactly now - 72 h gives no record, and an
\* item dated one millisecond later does.
C14_Original ==
    Parsed =>
       /\ \A i \in ItemsAt(now - CUTOFF_HOURS * MS_PER_HOUR) :
             ~InOutput(feed.items[i], now - CUTOFF_HOURS * MS_PER_HOUR)
       /\ \A i \in ItemsAt(now - CUTOFF_HOURS * MS_PER_HOUR + 1) :
             \E j \in 1..Len(records) :
                DedupKey(records[j][2], records[j][3]) = ItemKey(feed.items[i])

\* C14 amended: an item dated exactly now - 72 h is kept (its key comes out
\* with that timestamp), and an item dated one millisecond earlier gives no
\* record.
C14_CutoffIsKept ==
    Parsed =>
       /\ \A i \in ItemsAt(now - CUTOFF_HOURS * MS_PER_HOUR) :
             InOutput(feed.items[i], now - CUTOFF_HOURS * MS_PER_HOUR)
       /\ \A i \in ItemsAt(now - CUTOFF_HOURS * MS_PER_HOUR - 1) :
             \A j \in 1..Len(records) :
                records[j][1] # now - CUTOFF_HOURS * MS_PER_HOUR - 1

\* C14 witness: the list holds an item at the cutoff and one a millisecond
\* before it, and parse_records has returned a record
C14_Witness ==
    /\ Parsed /\ records # <<>>
    /\ ItemsAt(now - CUTOFF_HOURS * MS_PER_HOUR) # {}
    /\ ItemsAt(now - CUTOFF_HOURS * MS_PER_HOUR - 1) # {}

\* the genre list is_dnb_track sees for an artist: the cached one, or the one
\* the catalog returns on a miss
GenresSeen(aid) ==
    IF aid \in DOMAIN artist_genres THEN artist_genres[aid] ELSE CatalogGenres(aid)

\* some genre of the artist equals a target keyword, case aside
HasTargetGenre(aid) ==
    \E i \in 1..Len(GenresSeen(aid)) : Lower(GenresSeen(aid)[i]) \in DNB_GENRE_KEYWORDS

\* C15: the walk of is_dnb_track answers true iff some artist of the track has
\* a genre equal, case aside, to a target keyword; it visits the artists in
\* order, one remote call and one cache row per uncached artist, and ends at
\* the first artist that matches, touching no later artist.
C15_FirstMatchWins ==
    /\ [](pc = "store" =>
            /\ is_dnb <=> \E i \in 1..Len(track.artists) : HasTargetGenre(track.artists[i])
            /\ is_dnb => /\ artists_left # <<>>
                         /\ HasTargetGenre(Head(artists_left))
                         /\ \A i \in 1..(Len(track.artists) - Len(artists_left)) :
                               ~HasTargetGenre(track.artists[i]))
    /\ [][ (pc = "walk" /\ pc' \in {"walk", "store"}) =>
             /\ is_dnb' <=> HasTargetGenre(Head(artists_left))
             /\ is_dnb' => (pc' = "store" /\ artists_left' = artists_left)
             /\ ~is_dnb' => artists_left' = Tail(artists_left)
             /\ calls'.artist = calls.artist
                  + (IF Head(artists_left) \in DOMAIN artist_genres THEN 0 ELSE 1)
             /\ DOMAIN artist_genres' = DOMAIN artist_genres \cup {Head(artists_left)}
             /\ \A a \in DOMAIN artist_genres : artist_genres'[a] = artist_genres[a] ]_vars
    /\ [][ pc = "store" =>
             (calls'.artist = calls.artist /\ artist_genres' = artist_genres) ]_vars

\* C15 witness: the walk ended at the first artist of a track with two, and
\* the second artist was neither fetched nor cached
C15_Witness ==
    /\ pc = "store" /\ is_dnb
    /\ Len(track.artists) = 2 /\ artists_left = track.artists
    /\ track.artists[2] \notin DOMAIN artist_genres
    /\ calls.artist = 1

\* the step is a visit of is_dnb_track to the artist at hand
AtArtist == pc = "walk" /\ artists_left # <<>>

\* C16 as stated: sp.artist is called at most once per artist id, over all
\* runs.
C16_Original ==
    [][ (AtArtist /\ calls'.artist > calls.artist)
          => Head(artists_left) \notin artistIssued ]_vars

\* C16 amended: sp.artist is called only for an artist without a cached row;
\* when the call returns, the list it returned is cached as it is, empty or
\* not, matching or not; a row of the artist-genre cache is never removed or
\* changed, so at most one call per artist id returns and every later visit
\* is served from the cache.
C16_OneFetchPerArtist ==
    /\ [][ AtArtist =>
             /\ Head(artists_left) \in DOMAIN artist_genres
                  => calls'.artist = calls.artist
             /\ (calls'.artist > calls.artist /\ pc' # "idle")
                  => /\ Head(artists_left) \in DOMAIN artist_genres'
                     /\ artist_genres'[Head(artists_left)]
                          = CatalogGenres(Head(artists_left)) ]_vars
    /\ [][ \A a \in DOMAIN artist_genres :
             a \in DOMAIN artist_genres' /\ artist_genres'[a] = artist_genres[a] ]_vars

\* C16 witness: a track whose artists were fetched in an earlier run is walked
\* again without a remote call, one of its artists having an empty cached list
C16_Witness ==
    /\ pc = "store" /\ calls.artist = 0 /\ calls.track >= 1
    /\ \E i \in 1..Len(track.artists) :
          /\ track.artists[i] \in DOMAIN artist_genres
          /\ artist_genres[track.artists[i]] = <<>>
          /\ track.artists[i] \in artistIssued

\* C17: a resolved uri that has a row in track_dnb_status, with either value
\* of is_dnb, costs no sp.track call, no artist walk and no cache write, and
\* the row's is_dnb decides whether it joins new_dnb_uris; sp.track is called,
\* and a row is written, only for a uri without one.
C17_ClassificationCacheFirst ==
    /\ [][ (pc = "classify" /\ uri \in DOMAIN track_dnb_status /\ pc' # "idle") =>
             /\ pc' = "resolve"
             /\ calls' = calls
             /\ artist_genres' = artist_genres
             /\ track_dnb_status' = track_dnb_status
             /\ new_uris' = Append(new_uris, uri)
             /\ new_dnb_uris' = IF track_dnb_status[uri].is_dnb = 1
                                THEN Append(new_dnb_uris, uri) ELSE new_dnb_uris ]_vars
    /\ [][ calls'.track > calls.track =>
             (pc = "classify" /\ uri \notin DOMAIN track_dnb_status) ]_vars
    /\ [][ (pc # "idle" /\ track_dnb_status' # track_dnb_status) =>
             /\ pc = "store" /\ uri \notin DOMAIN track_dnb_status
             /\ calls.track >= 1
             /\ DOMAIN track_dnb_status' = DOMAIN track_dnb_status \cup {uri}
             /\ track_dnb_status'[uri].is_dnb = (IF is_dnb THEN 1 ELSE 0)
             /\ \A u \in DOMAIN track_dnb_status :
                   track_dnb_status'[u] = track_dnb_status[u] ]_vars

\* C17 witness: a run has taken a uri classified as not of the target genre
\* from the classification cache, without any sp.track call
C17_Witness ==
    /\ pc = "resolve" /\ calls.track = 0 /\ calls.artist = 0
    /\ \E i \in 1..Len(new_uris) :
          /\ new_uris[i] \in DOMAIN track_dnb_status
          /\ track_dnb_status[new_uris[i]].is_dnb = 0
          /\ \A j \in 1..Len(new_dnb_uris) : new_dnb_uris[j] # new_uris[i]

\* the step is a call of search_track in which a remote search is issued and
\* no result comes back: no uri is returned and no miss is recorded
SearchFails ==
    /\ AtResolve
    /\ calls'.search > calls.search
    /\ uri' = None
    /\ misses' # Append(misses, <<Head(records)[2], Head(records)[3]>>)

\* C18: when a remote search fails in search_track, no further search is
\* issued, tracks and not_found are left as they were, and the run ends as
\* failed without having sent any removal or addition to a playlist.
C18_SearchFailurePropagates ==
    [][ SearchFails =>
          /\ pc' = "idle" /\ prevExit' = "aborted"
          /\ calls'.search - calls.search <= 2
          /\ calls'.search - calls.search = 2
               => NeedsFallback(catalog, Head(records)[2], Head(records)[3])
          /\ tracks' = tracks /\ not_found' = not_found
          /\ playlist' = playlist
          /\ calls'.remove = 0 /\ calls'.add = 0 /\ calls'.snapshot = 0 ]_vars

\* C18 witness: a run has ended in a failed search for a key the catalog does
\* not hold, and the key has no entry in either table
C18_Witness ==
    /\ pc = "idle" /\ prevExit = "aborted" /\ calls.search >= 1
    /\ \E k \in DOMAIN lastIssued :
          /\ lastIssued[k] = DateOf(now)
          /\ k \notin DOMAIN lastMiss
          /\ k \notin DOMAIN tracks /\ k \notin DOMAIN not_found

\* the decoded body is none of the shapes fetch_opus knows: not JSON, or JSON
\* without a list under "rdsList", "rds", "data" or "items" and not a list
Unrecognized(body) == body.shape \notin {"rdsList", "rds", "data", "items", "list"}

\* C19: when the feed answers with a body that is not JSON or is JSON of an
\* unrecognized shape, fetch_opus returns no items without raising, and the
\* run goes on, with no record, to the snapshot of the managed playlist.
C19_Claim ==
    [][ (pc = "fetch" /\ Unrecognized(feed)) =>
          (pc' = "resolve" /\ records' = <<>> /\ prevExit' = prevExit) ]_vars

\* C20: for each playlist that is reconciled, remove_old returns a count above
\* zero exactly when the playlist has lost a slot; main() then reads the
\* snapshot once more iff that count is above zero; when it is zero the
\* snapshot read before the removal is kept and no other read is made; the
\* additions are computed from the snapshot main() then holds; and a snapshot
\* read happens nowhere else than before a removal or after a removal that
\* removed something.
C20_RereadIffRemoved ==
    /\ [](pc = "after_remove" =>
            (removed > 0 <=> Len(playlist_snapshot(playlist[cur])) < Len(snapshot)))
    /\ [][ (pc = "after_remove" /\ pc' = "adding") =>
             /\ calls'.snapshot = calls.snapshot + (IF removed > 0 THEN 1 ELSE 0)
             /\ removed = 0 => snapshot' = snapshot
             /\ removed > 0 => snapshot' = playlist_snapshot(playlist[cur])
             /\ to_add' = ToAdd(CurUris, snapshot') ]_vars
    /\ [][ calls'.snapshot > calls.snapshot =>
             /\ calls'.snapshot = calls.snapshot + 1
             /\ \/ pc \in {"resolve", "main_done"}
                \/ pc = "after_remove" /\ removed > 0 ]_vars

\* C20 witness: the main playlist lost nothing and its one snapshot served the
\* additions; the genre playlist lost a slot and was read a second time
C20_Witness ==
    /\ pc = "adding" /\ cur = "dnb"
    /\ out.removed = 0
    /\ removed > 0
    /\ calls.snapshot = 3

CeilDiv(k, b) == (k + b - 1) \div b

\* C22: for a list of k ids add_new issues exactly ceil(k / BATCH_SIZE)
\* append requests; every request but possibly the last carries exactly
\* BATCH_SIZE ids and the last at least one; the ids sent so far are, in
\* order, the head of the list, and in the end the whole list; the returned
\* count is k; with k = 0 no request is made.
C22_BatchesCoverTheList ==
    /\ [](pc \in {"adding", "main_done"} =>
            LET pl == playlist[cur]
                base == Len(snapshot)
            IN  /\ Len(pl) = base + added
                /\ \A i \in 1..added : pl[base + i].uri = to_add[i]
                /\ Flatten(addq) = SubSeq(to_add, added + 1, Len(to_add))
                /\ calls.add = CeilDiv(added, BATCH_SIZE)
                /\ (pc = "adding" /\ addq # <<>>) => added % BATCH_SIZE = 0
                /\ (pc = "main_done" \/ addq = <<>>) => added = Len(to_add)
                /\ pc = "main_done" =>
                      /\ out.added = Len(to_add)
                      /\ calls.add = CeilDiv(Len(to_add), BATCH_SIZE))
    /\ [][ calls'.add = calls.add + 1 =>
             LET n == Len(playlist'[cur]) - Len(playlist[cur])
             IN  \/ n = BATCH_SIZE
                 \/ n \in 1..(BATCH_SIZE - 1) /\ addq' = <<>> ]_vars

\* C22 witness: add_new has returned the length of a list that took several
\* requests, the last of them short
C22_Witness ==
    /\ pc = "main_done"
    /\ Len(to_add) > BATCH_SIZE /\ Len(to_add) % BATCH_SIZE # 0
    /\ calls.add >= 2 /\ out.added = Len(to_add)

\* the keys of the records the run at hand has not found
MissKeys == { DedupKey(misses[i][1], misses[i][2]) : i \in 1..Len(misses) }

\* the slots of the main playlist older than the cutoff at clock t
OldMain(t) ==
    Cardinality({ i \in 1..Len(playlist["main"]) :
                    playlist["main"][i].added_at < t - CUTOFF_HOURS * MS_PER_HOUR })

\* C23: in a run that reaches its summary the reported counts are those of
\* the run: removed is the number of slots of the main playlist older than
\* the cutoff when remove_old looked, added is the number of ids appended to
\* the main playlist, not-found is the number of records whose resolution
\* returned nothing, every record being counted either as resolved or as not
\* found; and every not-found record's key holds, from its resolution to the
\* end of the run, a negative entry dated the day of that resolution, which
\* is the day of the summary unless the clock moved during the run.
C23_CountsMatch ==
    /\ [](pc # "idle" =>
            \A k \in MissKeys :
               /\ k \in DOMAIN not_found
               /\ not_found[k] <= DateOf(now)
               /\ envSince => not_found[k] = DateOf(now))
    /\ []((cur = "main" /\ pc \in {"adding", "main_done"}) => out.removed = removed)
    /\ [](pc = "main_done" =>
            /\ out.added = added
            /\ Len(playlist["main"]) = Len(snapshot) + added)
    /\ [][ (pc = "remove_old" /\ cur = "main" /\ pc' \in {"removing", "after_remove"})
             => removed' = OldMain(now) ]_vars
    /\ [][ (pc = "removing" /\ pc' # "idle") => removed' = removed ]_vars
    /\ [][ (pc # "idle" /\ (pc \in {"main_done", "dnb_done"} \/ cur = "dnb")) =>
             /\ out'.removed = out.removed
             /\ out'.added = out.added
             /\ playlist'["main"] = playlist["main"] ]_vars
    /\ [][ (pc \notin {"idle", "fetch"} /\ pc' # "idle" /\ records' # records) =>
             /\ records' = Tail(records)
             /\ Len(misses') + Len(new_uris') = Len(misses) + Len(new_uris) + 1
             /\ misses' # misses =>
                   /\ misses' = Append(misses, <<Head(records)[2], Head(records)[3]>>)
                   /\ ~Truthy(uri')
                   /\ CurKey \in DOMAIN not_found'
                   /\ not_found'[CurKey] = DateOf(now)
             /\ new_uris' # new_uris => Truthy(uri) /\ new_uris' = Append(new_uris, uri) ]_vars
    /\ [][ (pc \in {"main_done", "dnb_done"} /\ pc' = "idle" /\ prevExit' = "complete")
             => out'.not_found = Len(misses) ]_vars
    /\ [][ pc # "idle" =>
             \A k \in MissKeys :
                k \in DOMAIN not_found' /\ not_found'[k] = not_found[k] ]_vars

\* C23 witness: a complete run has reported removed = 1, added = 1 and
\* not-found = 1 with no clock movement, and a negative entry is dated today
C23_Witness ==
    /\ pc = "idle" /\ prevExit = "complete" /\ envSince
    /\ out.removed = 1 /\ out.added = 1 /\ out.not_found = 1
    /\ \E k \in DOMAIN not_found : not_found[k] = DateOf(now)

\* every item of the playlist, in order, with its index from 0
WholeMembership(pl) == [i \in 1..Len(pl) |-> <<i - 1, pl[i].added_at, pl[i].uri>>]

\* C24: whenever playlist_snapshot returns, it returns every item of every
\* page of the playlist, in order, with positions 0, 1, ..., n-1 running on
\* across the page boundaries: it has gone on until there was no next page.
C24_SnapshotIsWhole ==
    /\ [](pc = "remove_old" => snapshot = WholeMembership(playlist[cur]))
    /\ [][ (calls'.snapshot = calls.snapshot + 1 /\ pc' # "idle") =>
             /\ snapshot' = WholeMembership(playlist[cur'])
             /\ \A i \in 1..Len(snapshot') : snapshot'[i][1] = i - 1 ]_vars

\* C24 witness: a snapshot of several pages, the last of them not full, has
\* been returned
C24_Witness ==
    /\ pc = "remove_old"
    /\ Len(snapshot) > PAGE_LIMIT /\ Len(snapshot) % PAGE_LIMIT # 0
    /\ snapshot[Len(snapshot)][1] = Len(snapshot) - 1

\* the slots of a playlist not older than the cutoff of remove_old, in order
NewerSlots(pl) ==
    SelectSeq(pl, LAMBDA x : x.added_at >= now - args.cutoff_hours * MS_PER_HOUR)

\* the slots the snapshot was taken from
SnapshotSlots == [i \in 1..Len(snapshot) |-> Slot(snapshot[i][2], snapshot[i][3])]

\* the positions remove_old has yet to send
PayloadPositions(cs) ==
    UNION { { Flatten(cs)[i].positions[q] : q \in 1..Len(Flatten(cs)[i].positions) }
            : i \in 1..Len(Flatten(cs)) }

\* remove_old, called without max_tracks, selects exactly the slots strictly
\* older than now - d
C25_Selection ==
    (args.max_tracks = <<>> /\ pc = "removing" /\ calls.remove = 0) =>
        PayloadPositions(chunks) =
           { snapshot[i][1] : i \in { j \in 1..Len(snapshot) :
                 snapshot[j][2] < now - args.cutoff_hours * MS_PER_HOUR } }

\* C25: under MaxAge(d), remove_old selects a slot iff its added_at is
\* strictly older than now - d, and a slot whose added_at is equal to or newer
\* than now - d is never removed from the playlist.
C25_Claim ==
    /\ C25_Selection
    /\ args.max_tracks = <<>> => NewerSlots(playlist[cur]) = NewerSlots(SnapshotSlots)

\* C26: an entry of the table tracks never goes away and never changes but
\* by cache_store in a search that found the key's track: cached_lookup
\* returns the uri last stored for a key after any step, on any later day and
\* in any later run; the writes of the negative cache, of the two
\* classification tables and the clearing of the classification table leave
\* the table tracks as it was.
C26_ResolutionEntriesPersist ==
    [][ /\ \A k \in DOMAIN tracks : k \in DOMAIN tracks'
        /\ tracks' # tracks =>
              /\ pc = "resolve" /\ records # <<>>
              /\ Truthy(uri') /\ ~from_cache'
              /\ calls'.search > calls.search
              /\ tracks' = Put(tracks, CurKey, uri')
        /\ \A k \in DOMAIN tracks' :
              cached_lookup(tracks', k) =
                 IF tracks' # tracks /\ k = CurKey THEN uri' ELSE cached_lookup(tracks, k)
        /\ (\/ track_dnb_status' # track_dnb_status
            \/ artist_genres' # artist_genres
            \/ \E k \in DOMAIN not_found' :
                  k \notin DOMAIN not_found \/ not_found'[k] # not_found[k])
              => tracks' = tracks ]_vars

\* C26 witness: on a later day, in a later run and after the classification
\* table was cleared, a record is resolved from the table tracks alone
C26_Witness ==
    /\ pc = "classify" /\ from_cache /\ Truthy(uri)
    /\ calls.search = 0
    /\ DateOf(now) > DateOf(T0)
    /\ clear_dnb_cache /\ budget.runs = 0

\* the item is one the claim calls dropped: its timestamp cannot be parsed,
\* it is older than the cutoff, its song is empty or has no artist - title
\* split
Droppable(item, t) == parse_dt_raises(RawDt(item)) \/ ParseItem(item, t) = <<>>

\* the list without its droppable items
WithoutDropped(items, t) == SelectSeq(items, LAMBDA it : ~Droppable(it, t))

\* C27: parse_records on a list returns what it returns on the same list
\* with the items removed that have an unparseable timestamp, no artist -
\* title split, an empty song or a timestamp older than the cutoff.
C27_Claim ==
    pc # "fetch" =>
       /\ pc = "resolve"
       /\ records = parse_records(WithoutDropped(feed.items, now), now)

\* the step in which main() prints its summary and returns
Completes == pc \in {"main_done", "dnb_done"} /\ pc' = "idle" /\ prevExit' = "complete"

\* C28: a run that completes with a genre playlist configured has taken that
\* playlist through its snapshot and its removal selection under MaxCount,
\* whether or not the run resolved a track of the target genre and whether or
\* not the feed yielded a record.
C28_Claim ==
    [][ (Completes /\ dnb_playlist_id # None) =>
          /\ pc = "dnb_done" /\ cur = "dnb"
          /\ args.max_tracks = <<DNB_MAX_TRACKS>>
          /\ calls.snapshot >= 2 ]_vars

\* C29: when a run completes with a genre playlist configured, that playlist,
\* its removals and additions applied, holds at most DNB_MAX_TRACKS slots.
C29_Claim ==
    [][ (Completes /\ dnb_playlist_id # None) =>
          Len(playlist'["dnb"]) <= DNB_MAX_TRACKS ]_vars

\* no track id sits in two slots of the playlist
NoDupUris(pl) == \A i, j \in 1..Len(pl) : pl[i].uri = pl[j].uri => i = j

\* C30: no step of a run puts a track id into a playlist a second time: a
\* playlist that holds no track id more than once before the step holds none
\* more than once after it, also when two records of different keys resolved
\* to one track id.
C30_Claim ==
    [][ \A id \in {"main", "dnb"} :
           NoDupUris(playlist[id]) => NoDupUris(playlist'[id]) ]_vars

\* the track ids in the slots of a playlist
PlaylistUris(pl) == { pl[i].uri : i \in 1..Len(pl) }

\* the track ids of a list
ListUris(l) == { l[i] : i \in 1..Len(l) }

\* C31: once add_new has returned for the main playlist, and still when the
\* run completes, every track id the run resolved from the feed is in the
\* main playlist, also a track id whose slots remove_old removed earlier in
\* the run.
C31_ResolvedAreMembers ==
    /\ []((pc = "main_done" \/ (pc # "idle" /\ cur = "dnb")) =>
            ListUris(new_uris) \subseteq PlaylistUris(playlist["main"]))
    /\ [][ Completes => ListUris(new_uris) \subseteq PlaylistUris(playlist'["main"]) ]_vars

\* C31 witness: the run started with the track in old slots only, removed
\* them, resolved the track from the feed and appended it again
C31_Witness ==
    /\ pc = "main_done" /\ ~resumed /\ ~twin
    /\ out.removed > 0
    /\ \E u \in ListUris(to_add) :
          /\ u \in PlaylistUris(ref.playlist["main"])
          /\ \A k \in 1..Len(ref.playlist["main"]) :
                ref.playlist["main"][k].uri = u =>
                   ref.playlist["main"][k].added_at < T0 - CUTOFF_HOURS * MS_PER_HOUR
          /\ u \in PlaylistUris(playlist["main"])

\* the run at hand has read or changed a playlist
PlaylistTouched == calls.snapshot > 0 \/ calls.remove > 0 \/ calls.add > 0

\* C32: within a run, no playlist is read or changed while a record is still
\* to be resolved or classified; the genre playlist is read or changed only
\* after add_new has returned for the main playlist, and the main playlist is
\* not changed after that; and for each playlist no removal request is issued
\* once an append request for it has been issued.
C32_StepsInOrder ==
    /\ []((pc # "idle"
             /\ (records # <<>> \/ pc \in {"request", "fetch", "classify", "walk", "store"}))
            => ~PlaylistTouched)
    /\ [][ (calls'.snapshot > calls.snapshot \/ calls'.remove > calls.remove
               \/ calls'.add > calls.add \/ playlist' # playlist) =>
             /\ records = <<>>
             /\ pc \in {"resolve", "removing", "after_remove", "adding", "main_done"} ]_vars
    /\ [][ (cur' = "dnb" /\ cur = "main" /\ pc' # "idle") => pc = "main_done" ]_vars
    /\ [][ playlist'["dnb"] # playlist["dnb"] => cur = "dnb" ]_vars
    /\ [][ playlist'["main"] # playlist["main"] =>
             cur = "main" /\ pc \in {"removing", "adding"} ]_vars
    /\ [][ calls'.remove > calls.remove =>
             pc = "removing" /\ added = 0 /\ addq = <<>> ]_vars
    /\ [][ calls'.add > calls.add => pc = "adding" /\ chunks = <<>> ]_vars

\* C32 witness: records were searched and classified, the main playlist had a
\* removal and an append, and the genre playlist is at its own append after a
\* removal of its own
C32_Witness ==
    /\ pc = "adding" /\ cur = "dnb" /\ addq # <<>>
    /\ removed > 0 /\ out.removed > 0 /\ out.added > 0
    /\ calls.search > 0 /\ calls.artist > 0

\* a is b with some elements left out
RECURSIVE IsSubseq(_, _)
IsSubseq(a, b) ==
    IF a = <<>> THEN TRUE
    ELSE IF b = <<>> THEN FALSE
    ELSE IF Head(a) = Head(b) THEN IsSubseq(Tail(a), Tail(b))
    ELSE IsSubseq(a, Tail(b))

\* the classification table holds is_dnb = b for the track id
ClassifiedAs(u, b) ==
    /\ get_cached_track_dnb_status(track_dnb_status, u) # <<>>
    /\ get_cached_track_dnb_status(track_dnb_status, u)[1] = b

\* C33: the list of genre additions is a subsequence of the ids the run
\* resolved and holds exactly those the classification table marks as target
\* genre; what the run sets out to append, and every id it appends, to the
\* genre playlist comes from that list: resolved in this run, classified
\* true, never classified false.
C33_GenreAdditionsAreClassified ==
    /\ [](pc # "idle" =>
            /\ IsSubseq(new_dnb_uris, new_uris)
            /\ \A u \in ListUris(new_uris) :
                  ClassifiedAs(u, TRUE) \/ ClassifiedAs(u, FALSE)
            /\ new_dnb_uris = SelectSeq(new_uris, LAMBDA u : ClassifiedAs(u, TRUE))
            /\ cur = "dnb" => IsSubseq(to_add, new_dnb_uris))
    /\ [][ (calls'.add > calls.add /\ cur = "dnb") =>
             \A i \in (Len(playlist["dnb"]) + 1)..Len(playlist'["dnb"]) :
                /\ playlist'["dnb"][i].uri \in ListUris(new_uris)
                /\ ClassifiedAs(playlist'["dnb"][i].uri, TRUE)
                /\ ~ClassifiedAs(playlist'["dnb"][i].uri, FALSE) ]_vars

\* C33 witness: the run resolved one track classified true and one
\* classified false, and appended to the genre playlist
C33_Witness ==
    /\ pc = "dnb_done" /\ added > 0
    /\ \E u \in ListUris(new_uris) : ClassifiedAs(u, FALSE)
    /\ \E u \in ListUris(to_add) : u \in PlaylistUris(playlist["dnb"])

\* ------------------------------------------------------------------------
\* search_track on its own: one record of any of the artist strings below,
\* against small catalogs and cache contents
\* ------------------------------------------------------------------------

SearchTitle == <<"y">>

SearchArtists ==
    { <<"A">>,
      <<"A",","," ","B">>,
      <<"A"," ","a","n","d"," ","B">>,
      <<"A"," ","A","n","d"," ","B">>,
      <<"A"," ","&"," ","B">>,
      <<"A"," ","V","s"," ","B">>,
      <<"A"," ","v","s"," ","B">>,
      <<"A","/","B">>,
      <<"A","&","B">>,
      <<"A"," ","B">>,
      <<"A",","," ","B"," ","a","n","d"," ","C">>,
      <<"A"," ","a","n","d"," ","B",","," ","C">>,
      <<"A"," ","&"," ","a","n","d"," ","B">> }

\* catalogs that answer neither query, the full query, the first artist's query
SearchCatalogs(artist) ==
    { EmptyTable,
      <<SearchTitle, clean_artist(artist)>> :> "u1",
      <<SearchTitle, <<"A">> >> :> "u2" }

InitSearch ==
    /\ now = T0
    /\ feed = [shape |-> "dict", items |-> <<>>]
    /\ clear_dnb_cache = FALSE
    /\ dnb_playlist_id = "dnb"
    /\ budget = [ticks |-> 0, changes |-> 0, runs |-> 0]
    /\ artist_genres = EmptyTable /\ track_dnb_status = EmptyTable
    /\ playlist = [main |-> <<>>, dnb |-> <<>>]
    /\ pc = "resolve"
    /\ out = NoOut
    /\ \E a \in SearchArtists :
          /\ records = << <<T0 - MS_PER_HOUR, a, SearchTitle>> >>
          /\ catalog \in SearchCatalogs(a)
          /\ tracks \in {EmptyTable, DedupKey(a, SearchTitle) :> "u3"}
          /\ not_found \in {EmptyTable,
                            DedupKey(a, SearchTitle) :> DateOf(T0),
                            DedupKey(a, SearchTitle) :> (DateOf(T0) - 1)}
    /\ uri = None /\ from_cache = FALSE
    /\ track = CatalogTrack(None) /\ artists_left = <<>> /\ is_dnb = FALSE
    /\ new_uris = <<>> /\ new_dnb_uris = <<>> /\ misses = <<>>
    /\ cur = "main" /\ args = [cutoff_hours |-> CUTOFF_HOURS, max_tracks |-> <<>>]
    /\ snapshot = <<>> /\ chunks = <<>> /\ removed = 0
    /\ to_add = <<>> /\ addq = <<>> /\ added = 0
    /\ HistInit

NextSearch == SearchTrack

SpecSearch == InitSearch /\ [][NextSearch]_vars

\* the separators of the fallback as the specification lists them
ListedSeparators ==
    { <<",">>, <<" ","a","n","d"," ">>, <<" ","&"," ">>, <<" ","V","s"," ">>, <<"/">> }

\* the artist string holds the separator; anycase matches it in any letter case
HoldsSeparator(artist, sep, anycase) ==
    IF anycase THEN Contains(Lower(artist), Lower(sep)) ELSE Contains(artist, sep)

HasListedSeparator(artist, anycase) ==
    \E sep \in ListedSeparators : HoldsSeparator(artist, sep, anycase)

\* the substring of the artist before the first occurrence of any separator
BeforeFirstSeparator(artist, anycase) ==
    LET at(sep) == IF anycase THEN FindFirst(Lower(artist), Lower(sep))
                   ELSE FindFirst(artist, sep)
        first == CHOOSE i \in 1..Len(artist) :
                    /\ \E sep \in ListedSeparators : at(sep) = i
                    /\ \A sep \in ListedSeparators : at(sep) = 0 \/ at(sep) >= i
    IN  SubSeq(artist, 1, first - 1)

\* what the claim says of one resolve of (artist, title) that issued n searches
FallbackAsClaimed(artist, title, n, anycase) ==
    /\ n = 2 <=> /\ n >= 1
                 /\ SearchRemote(catalog, title, clean_artist(artist)) = None
                 /\ HasListedSeparator(artist, anycase)
    /\ n = 2 =>
         /\ HasListedSeparator(artist, anycase)
         /\ first_artist_q(artist) = clean_artist(BeforeFirstSeparator(artist, anycase))
         /\ ~HasListedSeparator(first_artist_q(artist), anycase)

\* C34: a resolve issues the second search iff the first search found nothing
\* and the artist string holds one of the listed separators, and the second
\* search's artist is the sanitized substring before the first separator, which
\* holds no separator itself; the separators read either exactly as listed or
\* in any letter case.
C34_Claim ==
    [][ (pc = "resolve" /\ records # <<>>) =>
          \E anycase \in BOOLEAN :
             FallbackAsClaimed(Head(records)[2], Head(records)[3],
                               calls'.search - calls.search, anycase) ]_vars

\* the items of the feed that pass the timestamp and empty-song filters
Eligible ==
    { i \in 1..Len(feed.items) :
        /\ parse_dt(RawDt(feed.items[i])) # <<>>
        /\ parse_dt(RawDt(feed.items[i]))[1] >= now - CUTOFF_HOURS * MS_PER_HOUR
        /\ RawSong(feed.items[i]) # <<>> }

\* the (artist, title) a song string gives when cut at the first occurrence
\* of pat, the title cleaned
SplitAt(song, pat) ==
    LET h == FindFirst(song, pat)
    IN  << Strip(SubSeq(song, 1, h - 1)),
           CleanTitle(Strip(SubSeq(song, h + Len(pat), Len(song)))) >>

\* the records the output must hold when the separator is pat: one for each
\* eligible item whose song holds pat, cut at its first occurrence
SplitRecords(pat) ==
    { <<parse_dt(RawDt(feed.items[i]))[1]>> \o SplitAt(RawSong(feed.items[i]), pat) :
        i \in { j \in Eligible : Contains(RawSong(feed.items[j]), pat) } }

\* the output is what cutting at pat gives: each record is the cut of an
\* eligible item that holds pat, and each such item's key is in the output
OutputSplitsAt(pat) ==
    /\ \A i \in 1..Len(records) : records[i] \in SplitRecords(pat)
    /\ \A r \in SplitRecords(pat) : \E i \in 1..Len(records) :
          DedupKey(records[i][2], records[i][3]) = DedupKey(r[2], r[3])

\* C35 as stated: the song string is cut at the first " - ", and a string
\* without " - " gives no record.
C35_Original == Parsed => OutputSplitsAt(SEP)

\* C35 amended: the song string is cut at its first hyphen, the whitespace
\* around it trimmed, and only a string without any hyphen gives no record; a
\* string whose hyphens have no spaces around them is cut at the first one.
C35_SplitsAtFirstHyphen == Parsed => OutputSplitsAt(<<"-">>)

\* C35 witness: the feed holds eligible items with a tight hyphen only, with a
\* tight hyphen before a spaced one, and with no hyphen; two records come out
C35_Witness ==
    /\ Parsed /\ Len(records) = 2
    /\ \E i \in Eligible : RawSong(feed.items[i]) = SongTight
    /\ \E i \in Eligible : RawSong(feed.items[i]) = SongJZ
    /\ \E i \in Eligible : RawSong(feed.items[i]) = SongBad

\* ------------------------------------------------------------------------
\* Runs whose statements execute one after the other
\* ------------------------------------------------------------------------

RunStep ==
    \/ Request \/ Fetch \/ FetchError \/ FetchBodyError \/ ParseError
    \/ SearchTrack \/ SearchTrackError
    \/ ClassifyCached \/ TrackDetail \/ TrackDetailError
    \/ ArtistVisit \/ ArtistError \/ ClassifyStore
    \/ SnapshotMain \/ SnapshotDnb \/ SnapshotError
    \/ RemoveOld \/ RemoveBatch \/ RemoveBatchError
    \/ ReuseSnapshot \/ Resnapshot
    \/ AddBatch \/ AddBatchError \/ AddDone
    \/ Summary

\* every remote call returns and every statement completes: a run that has
\* started keeps taking steps until it is over
SpecFair == Spec /\ ([]<>(pc = "idle") \/ []<><<RunStep>>_vars)

\* the record at hand has been resolved and is being classified
Classifying == pc \in {"classify", "walk", "store"}

\* the feed records the loop of main() has taken up so far in the run
Processed == Len(new_uris) + Len(misses) + (IF Classifying THEN 1 ELSE 0)

\* the artists of the tracks the loop has walked, the one at hand up to the
\* artist it stands at (the walk stays at the artist that matched)
RECURSIVE ArtistsOf(_)
ArtistsOf(us) ==
    IF us = <<>> THEN 0
    ELSE Len(CatalogTrack(Head(us)).artists) + ArtistsOf(Tail(us))

ArtistsWalked ==
    ArtistsOf(new_uris)
      + (IF pc \in {"walk", "store"}
         THEN Len(CatalogTrack(uri).artists) - Len(artists_left) ELSE 0)
      + (IF pc = "store" /\ is_dnb THEN 1 ELSE 0)

\* the playlists the run has started to reconcile
Reconciling ==
    IF pc \in {"request", "fetch", "resolve", "classify", "walk", "store"} THEN 0
    ELSE IF cur = "main" THEN 1 ELSE 2

\* the steps a run can still take are bounded by this number, which every
\* step of the run lowers
StepsLeft ==
    LET StepsPerRecord == 6
        phase == CASE pc = "request" -> 12
                   [] pc = "fetch" -> 11
                   [] pc \in {"resolve", "classify", "walk", "store"} -> 10
                   [] pc = "remove_old" /\ cur = "main" -> 9
                   [] pc = "removing" /\ cur = "main" -> 8
                   [] pc = "after_remove" /\ cur = "main" -> 7
                   [] pc = "adding" /\ cur = "main" -> 6
                   [] pc = "main_done" -> 5
                   [] pc = "remove_old" /\ cur = "dnb" -> 4
                   [] pc = "removing" /\ cur = "dnb" -> 3
                   [] pc = "after_remove" /\ cur = "dnb" -> 2
                   [] pc = "adding" /\ cur = "dnb" -> 1
                   [] OTHER -> 0
        inner == CASE pc = "resolve" -> Len(records) * StepsPerRecord
                   [] pc = "classify" -> Len(records) * StepsPerRecord - 1
                   [] pc = "walk" -> Len(records) * StepsPerRecord - 4 + Len(artists_left)
                   [] pc = "store" -> Len(records) * StepsPerRecord - 5
                   [] pc = "removing" -> Len(chunks)
                   [] pc = "adding" -> Len(addq)
                   [] OTHER -> 0
    IN  phase * 100 + inner

\* C36: a run that has started comes to its end; until then every step lowers
\* a bound on the steps left; one step issues at most 2 searches, 1 track-detail
\* call, 1 artist-detail call and 1 snapshot read; and over the run there are at
\* most 2 searches and 1 track-detail call per record taken up, at most one
\* artist-detail call per artist of the tracks walked, and at most 2 snapshot
\* reads per playlist under reconciliation, the second one only after removal.
C36_RunIsBounded ==
    /\ (pc # "idle") ~> (pc = "idle")
    /\ [](pc # "idle" =>
            /\ StepsLeft >= 0
            /\ calls.search <= 2 * Processed
            /\ calls.track <= Processed
            /\ calls.artist <= ArtistsWalked
            /\ calls.snapshot <= 2 * Reconciling)
    /\ [][ (pc # "idle" /\ pc' # "idle") =>
             \/ StepsLeft' < StepsLeft
             \/ StepsLeft' = StepsLeft /\ now' # now ]_vars
    /\ [][ pc # "idle" =>
             /\ calls'.search <= calls.search + 2
             /\ calls'.track <= calls.track + 1
             /\ calls'.artist <= calls.artist + 1
             /\ calls'.snapshot <= calls.snapshot + 1
             /\ calls'.track + calls'.artist + calls'.search
                  > calls.track + calls.artist + calls.search
                  => pc \in {"resolve", "classify", "walk"} /\ records # <<>>
             /\ calls'.snapshot > calls.snapshot
                  => \/ pc \in {"resolve", "main_done"}
                     \/ pc = "after_remove" /\ removed # 0 ]_vars

\* C36 witness: a run that took up a record needing both searches and a track
\* with two artists fetched remotely, and read both playlists twice, is at its
\* summary
C36_Witness ==
    /\ pc = "dnb_done"
    /\ calls.search >= 2 /\ calls.track >= 1 /\ calls.artist >= 2
    /\ calls.snapshot = 4

\* ------------------------------------------------------------------------
\* cache_store statement by statement. tracks and not_found are the tables as
\* committed; the statements executed in the open transaction are told by pc.
\* ------------------------------------------------------------------------

StoreKeys == { DedupKey(<<"A">>, <<"x">>), DedupKey(<<"A">>, <<"y">>) }

InitStore ==
    /\ now = T0
    /\ feed = [shape |-> "dict", items |-> <<>>]
    /\ catalog = EmptyTable
    /\ clear_dnb_cache = FALSE
    /\ dnb_playlist_id = "dnb"
    /\ budget = [ticks |-> 0, changes |-> 0, runs |-> 0]
    /\ tracks \in { EmptyTable } \cup { k :> u : k \in StoreKeys, u \in {"u2", "u3"} }
    /\ not_found \in { EmptyTable }
          \cup { k :> d : k \in StoreKeys, d \in {DateOf(T0), DateOf(T0) - 1} }
    /\ artist_genres = EmptyTable /\ track_dnb_status = EmptyTable
    /\ playlist = [main |-> <<>>, dnb |-> <<>>]
    /\ pc = "store_insert"
    /\ out = NoOut
    /\ records = << <<T0 - MS_PER_HOUR, <<"A">>, <<"x">> >> >>
    /\ uri \in {"u1", "u2"}
    /\ from_cache = FALSE
    /\ track = CatalogTrack(None) /\ artists_left = <<>> /\ is_dnb = FALSE
    /\ new_uris = <<>> /\ new_dnb_uris = <<>> /\ misses = <<>>
    /\ cur = "main" /\ args = [cutoff_hours |-> CUTOFF_HOURS, max_tracks |-> <<>>]
    /\ snapshot = <<>> /\ chunks = <<>> /\ removed = 0
    /\ to_add = <<>> /\ addq = <<>> /\ added = 0
    /\ calls = [NoCalls EXCEPT !.search = 1]
    /\ lastIssued = EmptyTable /\ lastMiss = EmptyTable /\ artistIssued = {}
    /\ startDb = Db /\ ref = [db |-> Db, playlist |-> playlist]
    /\ prevExit = "none" /\ envSince = TRUE /\ twin = FALSE /\ resumed = FALSE

\* an INSERT OR REPLACE that is committed on its own
StoreInsert_autocommit ==
    /\ pc = "store_insert"
    /\ tracks' = Put(tracks, CurKey, uri)
    /\ pc' = "store_delete"
    /\ UNCHANGED <<envVars, budget, not_found, artist_genres, track_dnb_status,
                   playlist, resolveVars, reconcileVars, out, calls, searchHist,
                   runHist>>

\* conn.execute("INSERT OR REPLACE INTO tracks ..."): the statement opens the
\* transaction; nothing is committed
StoreInsert ==
    /\ pc = "store_insert"
    /\ pc' = "store_delete"
    /\ UNCHANGED <<envVars, budget, dbVars, playlist, resolveVars, reconcileVars,
                   out, calls, searchHist, runHist>>

\* conn.execute("DELETE FROM not_found WHERE key=?"): in the same transaction
StoreDelete ==
    /\ pc = "store_delete"
    /\ pc' = "store_commit"
    /\ UNCHANGED <<envVars, budget, dbVars, playlist, resolveVars, reconcileVars,
                   out, calls, searchHist, runHist>>

\* conn.commit(): both statements of the transaction take effect
StoreCommit ==
    /\ pc = "store_commit"
    /\ tracks' = cache_store(tracks, not_found, CurKey, uri).tracks
    /\ not_found' = cache_store(tracks, not_found, CurKey, uri).not_found
    /\ pc' = "stored"
    /\ UNCHANGED <<envVars, budget, artist_genres, track_dnb_status, playlist,
                   resolveVars, reconcileVars, out, calls, searchHist, runHist>>

\* the process stops inside cache_store: the open transaction is rolled back
StoreInterrupt ==
    /\ pc \in {"store_insert", "store_delete", "store_commit"}
    /\ pc' = "idle"
    /\ prevExit' = "aborted"
    /\ UNCHANGED <<envVars, budget, dbVars, playlist, resolveVars, reconcileVars,
                   out, calls, searchHist, startDb, ref, envSince, twin, resumed>>

NextStore == StoreInsert \/ StoreDelete \/ StoreCommit \/ StoreInterrupt

SpecStore == InitStore /\ [][NextStore]_vars

\* the committed tables are as they were when cache_store was called
StoreAsBefore == tracks = startDb.tracks /\ not_found = startDb.not_found

\* the committed tables show both effects: the key maps to the uri, the key
\* has no negative entry, and every other row is as before
StoreBothApplied ==
    /\ CurKey \in DOMAIN tracks /\ tracks[CurKey] = uri
    /\ CurKey \notin DOMAIN not_found
    /\ \A k \in (DOMAIN tracks \cup DOMAIN startDb.tracks) \ {CurKey} :
          k \in DOMAIN tracks /\ k \in DOMAIN startDb.tracks
            /\ tracks[k] = startDb.tracks[k]
    /\ \A k \in (DOMAIN not_found \cup DOMAIN startDb.not_found) \ {CurKey} :
          k \in DOMAIN not_found /\ k \in DOMAIN startDb.not_found
            /\ not_found[k] = startDb.not_found[k]

\* C37: at every point of cache_store, and after an interruption at any of
\* them, the committed store is either entirely as before the call or shows
\* both the upsert and the deletion; after the call returned it shows both.
C37_StoreIsOneStep ==
    /\ StoreAsBefore \/ StoreBothApplied
    /\ pc = "stored" => StoreBothApplied
    /\ pc \in {"store_insert", "store_delete", "store_commit", "idle"} => StoreAsBefore

\* C37 witness: the call was interrupted after both statements had executed
\* (any point gives this state), where the key had another uri and a negative
\* entry; the store is as before
C37_Witness ==
    /\ pc = "idle" /\ prevExit = "aborted"
    /\ CurKey \in DOMAIN tracks /\ tracks[CurKey] # uri
    /\ CurKey \in DOMAIN not_found

\* the step is the clear-all operation at the start of a run
ClearsAll == pc = "idle" /\ pc' = "request" /\ clear_dnb_cache

\* C38: apart from the clear-all operation, no step removes or changes a row
\* of the classification table, whatever is added to the artist-genre table; a
\* row is written only by the loop body for the track at hand, and only when
\* that track has no row.
C38_ClassificationIsWrittenOnce ==
    /\ [][ ~ClearsAll =>
             \A u \in DOMAIN track_dnb_status :
                /\ u \in DOMAIN track_dnb_status'
                /\ track_dnb_status'[u] = track_dnb_status[u] ]_vars
    /\ [][ (~ClearsAll /\ track_dnb_status' # track_dnb_status) =>
             /\ pc = "store"
             /\ uri \notin DOMAIN track_dnb_status
             /\ DOMAIN track_dnb_status' = DOMAIN track_dnb_status \cup {uri} ]_vars
    /\ [](pc \in {"walk", "store"} => uri \notin DOMAIN track_dnb_status)

\* C38 witness: a later run met a track that has a row, classified true at
\* its first artist, while the artist-genre table also holds the row of its
\* other artist, which another track brought in; the run took the row as it
\* is, without a track-detail call
C38_Witness ==
    /\ pc = "resolve" /\ calls.track = 0 /\ "u1" \in ListUris(new_dnb_uris)
    /\ "u1" \in DOMAIN track_dnb_status /\ track_dnb_status["u1"].is_dnb = 1
    /\ "ar3" \in DOMAIN artist_genres /\ "ar1" \in DOMAIN artist_genres
    /\ budget.runs = 0

\* C39: the clear-all step leaves the classification table without rows,
\* returns the number of rows the table held, and leaves the resolution, the
\* negative and the artist-genre tables as they were; right after it the
\* classification lookup of every track id misses.
C39_ClearAllEmptiesOnlyClassifications ==
    /\ [][ ClearsAll =>
             /\ track_dnb_status' = clear_track_dnb_status_cache(track_dnb_status).table
             /\ DOMAIN track_dnb_status' = {}
             /\ clear_track_dnb_status_cache(track_dnb_status).rowcount
                  = Cardinality(DOMAIN track_dnb_status \ DOMAIN track_dnb_status')
             /\ tracks' = tracks /\ not_found' = not_found
             /\ artist_genres' = artist_genres
             /\ \A u \in Uris : get_cached_track_dnb_status(track_dnb_status', u) = <<>> ]_vars
    /\ []((pc = "request" /\ clear_dnb_cache) =>
            /\ \A u \in Uris : get_cached_track_dnb_status(track_dnb_status, u) = <<>>
            /\ tracks = startDb.tracks /\ not_found = startDb.not_found
            /\ artist_genres = startDb.artist_genres)

\* C39 witness: the clear-all step has just removed a row classified true,
\* from a store whose other three tables hold rows
C39_Witness ==
    /\ pc = "request" /\ clear_dnb_cache
    /\ \E u \in DOMAIN startDb.track_dnb_status : startDb.track_dnb_status[u].is_dnb = 1
    /\ track_dnb_status = EmptyTable
    /\ tracks # EmptyTable /\ not_found # EmptyTable /\ artist_genres # EmptyTable

====
